---- MODULE Spec2Model ----
(***************************************************************************)
(* The cloud network and instance lifecycle orchestrator of sfkit-website. *)
(*                                                                         *)
(* GoogleCloudCompute (src/src/utils/google_cloud/google_cloud_compute.py) *)
(* reconciles the network, firewall, peerings, subnets and instances of    *)
(* one cloud project; the restart and delete handlers of src/src/studies.py*)
(* and src/src/web/study.py tear a study's instances down.                 *)
(*                                                                         *)
(* Names are kept as sequences of text pieces, so that the substring       *)
(* operations of the code (str.replace, `in`) are computed, not assumed.   *)
(***************************************************************************)
EXTENDS Integers, Sequences, FiniteSets, TLC

(***************************************************************************)
(* Bounds of the model.                                                    *)
(***************************************************************************)
\* how many times in a row one orchestrator is asked to set up networking
MaxRuns == 2
\* how many cloud calls may fail transiently in one behaviour
MaxFail == 1
\* the largest role index a range is generated for
MaxOctet == 255

(***************************************************************************)
(* Names.                                                                  *)
(***************************************************************************)
\* cloud project ids; PX is a valid project id that contains "peering-"
P0 == <<"p0">>
P1 == <<"p1">>
P2 == <<"p2">>
PX == <<"peering-", "p1">>
Projects == {P0, P1, P2, PX}

\* constants.SERVER_GCP_PROJECT
SERVER_GCP_PROJECT == P0

\* constants.NETWORK_NAME, and the name of a network the orchestrator does not manage
NETWORK_NAME == <<"sfkit">>
OTHER_NETWORK == <<"default">>
\* another network of that kind, whose name has constants.NETWORK_NAME in it
SIMILAR_NETWORK == <<"sfkit", "-old">>

\* constants.SUBNET_NAME
SUBNET_NAME == <<"subnet">>

\* text `needle` occurs in text `hay` (Python's `needle in hay`), on pieces
Contains(hay, needle) ==
    \E i \in 0..(Len(hay) - Len(needle)) :
        \A j \in 1..Len(needle) : hay[i + j] = needle[j]

\* str(role): the decimal digits of a role index
RECURSIVE RoleStr(_)
RoleStr(r) ==
    LET digit(d) == <<"0", "1", "2", "3", "4", "5", "6", "7", "8", "9">>[d + 1]
    IN IF r < 10 THEN <<digit(r)>> ELSE RoleStr(r \div 10) \o <<digit(r % 10)>>

\* constants.SUBNET_NAME + role
SubnetName(role) == SUBNET_NAME \o RoleStr(role)

\* f"peering-{other_project}"
PeeringName(project) == <<"peering-">> \o project

\* peer["name"].replace("peering-", ""): every occurrence is removed
ParsePeering(name) == SelectSeq(name, LAMBDA t : t # "peering-")

(***************************************************************************)
(* Address ranges: a CIDR block is [addr, len], addr a 32-bit address.     *)
(***************************************************************************)
Pow2(n) == 2 ^ n

Ip(a, b, c, d) == a * Pow2(24) + b * Pow2(16) + c * Pow2(8) + d

Cidr(addr, len) == [addr |-> addr, len |-> len]

\* ipaddr.IPNetwork(..).network and .broadcast
NetworkAddr(n) == n.addr - (n.addr % Pow2(32 - n.len))
BroadcastAddr(n) == NetworkAddr(n) + Pow2(32 - n.len) - 1

\* `address in network` of ipaddr
InNet(a, n) == NetworkAddr(n) <= a /\ a <= BroadcastAddr(n)

\* ipaddr.IPNetwork.overlaps
\* an overlap test that every pair of ranges passes
OverlapsAlways(n1, n2) == TRUE

Overlaps(n1, n2) ==
    \/ InNet(NetworkAddr(n1), n2)
    \/ InNet(BroadcastAddr(n1), n2)
    \/ InNet(NetworkAddr(n2), n1)
    \/ InNet(BroadcastAddr(n2), n1)

\* f"10.0.0.{i}/24": the index put in the last octet
ExpectedRangeLastOctet(i) == Cidr(Ip(10, 0, 0, i), 24)

\* f"10.0.{i}.0/24", the range remove_conflicting_subnets expects for index i
ExpectedRange(i) == Cidr(Ip(10, 0, i, 0), 24)

\* f"10.0.{role}.0/24": the range that is expected, requested
SubnetRangeAsExpected(role) == Cidr(Ip(10, 0, role, 0), 24)

\* f"10.0.{role}.0/28", the range create_subnet requests
SubnetRange(role) == Cidr(Ip(10, 0, role, 0), 28)

\* n1 lies inside n2
Inside(n1, n2) == InNet(NetworkAddr(n1), n2) /\ InNet(BroadcastAddr(n1), n2)

(***************************************************************************)
(* Small helpers.                                                          *)
(***************************************************************************)
RECURSIVE SetToSeq(_)
SetToSeq(S) ==
    IF S = {} THEN <<>>
    ELSE LET x == CHOOSE y \in S : TRUE IN <<x>> \o SetToSeq(S \ {x})

SeqToSet(s) == {s[i] : i \in 1..Len(s)}

\* a call of the cloud API as the run's log keeps it
Call(op, arg, ok) == [op |-> op, arg |-> arg, ok |-> ok]

CallsOf(S, op, ok) == [i \in 1..Len(SetToSeq(S)) |-> Call(op, SetToSeq(S)[i], ok)]

(***************************************************************************)
(* Program constants.                                                      *)
(***************************************************************************)
\* range(3) in remove_conflicting_subnets
ExpectedIndexCount == 3
\* stop_after_attempt(..) of the four retried methods
PeeringRemoveAttempts == 3
DeleteSubnetAttempts == 5
CreateSubnetAttempts == 3
CreatePeeringsAttempts == 3
\* range(30) and `if i == 25` in the loop of delete_subnet that waits for the deletion
ConfirmRange == 30
QuitIndex == 25

(***************************************************************************)
(* State.                                                                  *)
(***************************************************************************)
VARIABLES
    \* the cloud, per project
    networks,     \* names of the networks of the project
    firewalls,    \* names of its firewall rules
    peerings,     \* names of the peerings of its study network
    subnets,      \* its subnets: [name, network, range]
    instances,    \* its instances: [name, subnet]
    \* the study record
    study,        \* GCP_PROJECT of each participant, in participant-list order
    \* one orchestrator per role: GoogleCloudCompute(project).setup_networking(doc, role)
    pc,           \* where the run is
    gcp,          \* its gcp_projects list
    todo,         \* the subnets remove_conflicting_subnets still has to delete
    attempt,      \* the attempt number of the retried method it is in
    log,          \* the stage events and mutating cloud calls of the run, in order
    runsLeft,     \* how many more runs may be started for the role
    prevDone,     \* the role's previous run returned normally
    startPeer,    \* the peerings present when the run started
    startSubnets, \* the subnets present when the run started
    startNets,    \* the networks present when the run started
    inflight,     \* how many operations the run started, did not wait for, and are running
    failBudget,   \* how many more cloud calls may fail transiently
    \* the rest of the study document, the stores next to it
    doc,          \* exists, and per participant: status, PUBLIC_KEY, IP_ADDRESS, AUTH_KEY
    authKeys,     \* the fields of the users/auth_keys document
    deletedStudies, \* the documents of the deleted_studies collection
    \* one restart_study or delete_study request
    handler,      \* which handler, where it is, its loop index, its doc_ref_dict
    threads,      \* the threads it started: target, project, instance, state
    teardownLog,  \* the delete calls of the request, in order
    failedProjects, \* the projects a cloud call of the request failed for
    \* one call of an operation waiter
    waiter,       \* its scope, the polled results, the polls made, how it ended
    \* one call of setup_instance
    si,            \* its arguments, where it is, its calls, the address it returns
    \* one comparison of the ranges generated for two role indices
    rc,
    \* one call of delete_subnet: where it is, its attempt, its calls, its listings
    ds,
    \* the calls of start_protocol: per participant where the call is and the status map it holds; who started the setup
    sp

cloudVars == <<networks, firewalls, peerings, subnets, instances>>
teardownVars == <<doc, authKeys, deletedStudies, handler, threads, teardownLog,
                  failedProjects>>
setupVars == <<pc, gcp, todo, attempt, log, runsLeft, prevDone, startPeer,
               startSubnets, startNets, inflight>>
vars == <<networks, firewalls, peerings, subnets, instances, study,
          pc, gcp, todo, attempt, log, runsLeft, prevDone, startPeer, startSubnets,
          startNets, failBudget, doc, authKeys, deletedStudies, handler, threads,
          teardownLog, failedProjects, waiter, inflight, si, rc, ds, sp>>

\* what setup_networking, and what a restart or delete request, leaves alone
outsideSetup == <<teardownVars, waiter, si, rc, ds, sp>>
outsideTeardown == <<setupVars, waiter, si, rc, ds, sp>>
outsideWaiter == <<setupVars, teardownVars, si, rc, ds, sp>>
outsideInstance == <<setupVars, teardownVars, waiter, rc, ds, sp>>
outsideRanges == <<setupVars, teardownVars, waiter, si, ds, sp>>
outsideDelete == <<setupVars, teardownVars, waiter, si, rc, sp>>

Roles == 0..3

\* the project of the participant at a role (its index in the participant list)
ProjectOf(r) == study[r + 1]

RolesOf(list) == 0..(Len(list) - 1)

\* f"{network_name}-vm-ingress"
FirewallName(net) == net \o <<"-vm-ingress">>

\* selfLink of a network and of a subnet of a project
NetworkUrl(project, net) == <<"projects/">> \o project \o <<"/global/networks/">> \o net
SubnetUrl(project, name) == <<"projects/">> \o project \o <<"/subnetworks/">> \o name

Subnet(name, net, range) == [name |-> name, network |-> net, range |-> range]
\* constants.ZONE, and a zone that is not it
ZONE == "constants.ZONE"
OTHER_ZONE == "other-zone"

InstanceIn(zone, name, subnet) == [name |-> name, subnet |-> subnet, zone |-> zone]
Instance(name, subnet) == InstanceIn(ZONE, name, subnet)

(***************************************************************************)
(* setup_networking: the order of its steps.                               *)
(***************************************************************************)
SetupOrderSwapped ==
    <<"create_network", "remove_conflicting_peerings", "create_subnet",
      "remove_conflicting_subnets", "create_peerings">>

SetupOrder ==
    <<"create_network", "remove_conflicting_peerings", "remove_conflicting_subnets",
      "create_subnet", "create_peerings">>

StageIndex(stage) == CHOOSE i \in 1..Len(SetupOrder) : SetupOrder[i] = stage

StageAfter(stage) ==
    IF StageIndex(stage) = Len(SetupOrder) THEN "done"
    ELSE SetupOrder[StageIndex(stage) + 1]

Enter(stage) == Call("enter", <<stage>>, TRUE)
Return(stage) == Call("return", <<stage>>, TRUE)
Raise(stage) == Call("raise", <<stage>>, FALSE)

\* gcp_projects = [SERVER_GCP_PROJECT] + [GCP_PROJECT of each participant]
GcpProjects(list) == <<SERVER_GCP_PROJECT>> \o list

\* the calls whose operation the code does not wait for: removePeering is
\* followed by time.sleep(2), addPeering by nothing
UnwaitedOps == {"networks.removePeering", "networks.addPeering"}

\* the calls of a sequence that start an operation nobody waits for
Unwaited(calls) == Len(SelectSeq(calls, LAMBDA c : c.op \in UnwaitedOps /\ c.ok))

Issues(r, calls) == inflight' = [inflight EXCEPT ![r] = @ + Unwaited(calls)]

\* the step of run r returns after issuing `calls`; the next step is entered
StepReturns(r, stage, calls) ==
    LET next == StageAfter(stage) IN
    /\ pc' = [pc EXCEPT ![r] = next]
    /\ attempt' = [attempt EXCEPT ![r] = 1]
    /\ log' = [log EXCEPT ![r] = @ \o calls \o <<Return(stage)>>
                                   \o (IF next = "done" THEN <<>> ELSE <<Enter(next)>>)]
    /\ Issues(r, calls)
    /\ UNCHANGED prevDone

\* a setup_networking that caught the error of a step and went on to the next
StepSwallows(r, stage, calls) ==
    LET next == StageAfter(stage) IN
    /\ pc' = [pc EXCEPT ![r] = next]
    /\ attempt' = [attempt EXCEPT ![r] = 1]
    /\ log' = [log EXCEPT ![r] = @ \o calls \o <<Raise(stage)>>
                                   \o (IF next = "done" THEN <<>> ELSE <<Enter(next)>>)]
    /\ Issues(r, calls)
    /\ UNCHANGED prevDone

\* the step of run r raises after issuing `calls`: setup_networking ends with the error
StepRaises(r, stage, calls) ==
    /\ pc' = [pc EXCEPT ![r] = "failed"]
    /\ attempt' = [attempt EXCEPT ![r] = 1]
    /\ log' = [log EXCEPT ![r] = @ \o calls \o <<Raise(stage)>>]
    /\ Issues(r, calls)
    /\ UNCHANGED prevDone

\* a retry without stop: an attempt that raises is always followed by another
AttemptRaisesForever(r, stage, calls, limit) ==
    /\ attempt' = [attempt EXCEPT ![r] = @ + 1]
    /\ log' = [log EXCEPT ![r] = @ \o calls]
    /\ Issues(r, calls)
    /\ UNCHANGED <<pc, prevDone>>

\* an attempt of a method under @retry(stop_after_attempt(limit)) raises
AttemptRaises(r, stage, calls, limit) ==
    IF attempt[r] < limit
    THEN /\ attempt' = [attempt EXCEPT ![r] = @ + 1]
         /\ log' = [log EXCEPT ![r] = @ \o calls]
         /\ Issues(r, calls)
         /\ UNCHANGED <<pc, prevDone>>
    ELSE StepRaises(r, stage, calls)

\* a cloud call fails transiently
TransientFailure ==
    /\ failBudget > 0
    /\ failBudget' = failBudget - 1

(***************************************************************************)
(* setup_networking, lines 17-24: assemble the project list, first step.   *)
(***************************************************************************)
StartSetup(r) ==
    /\ pc[r] \in {"idle", "done", "failed"}
    /\ runsLeft[r] > 0
    /\ runsLeft' = [runsLeft EXCEPT ![r] = @ - 1]
    /\ gcp' = [gcp EXCEPT ![r] = GcpProjects(study)]
    /\ pc' = [pc EXCEPT ![r] = SetupOrder[1]]
    /\ attempt' = [attempt EXCEPT ![r] = 1]
    /\ log' = [log EXCEPT ![r] = <<Enter(SetupOrder[1])>>]
    /\ prevDone' = [prevDone EXCEPT ![r] = (pc[r] = "done")]
    /\ startPeer' = [startPeer EXCEPT ![r] = peerings[ProjectOf(r)]]
    /\ startSubnets' = [startSubnets EXCEPT ![r] = subnets[ProjectOf(r)]]
    /\ startNets' = [startNets EXCEPT ![r] = networks[ProjectOf(r)]]
    /\ todo' = [todo EXCEPT ![r] = {}]
    /\ UNCHANGED outsideSetup
    /\ inflight' = [inflight EXCEPT ![r] = 0]
    /\ UNCHANGED <<cloudVars, study, failBudget>>

(***************************************************************************)
(* create_network and create_firewall.                                     *)
(***************************************************************************)
CreateNetwork(r) ==
    LET p == ProjectOf(r)
        netCall(ok) == Call("networks.insert", NETWORK_NAME, ok)
        fwCall(ok) == Call("firewalls.insert", FirewallName(NETWORK_NAME), ok)
    IN
    /\ pc[r] = "create_network"
    /\ \/ \* the network is listed: nothing is created
          /\ NETWORK_NAME \in networks[p]
          /\ StepReturns(r, "create_network", <<>>)
          /\ UNCHANGED <<cloudVars, failBudget>>
       \/ \* the network is inserted, waited for, and its firewall rule created
          /\ NETWORK_NAME \notin networks[p]
          /\ networks' = [networks EXCEPT ![p] = @ \cup {NETWORK_NAME}]
          /\ firewalls' = [firewalls EXCEPT ![p] = @ \cup {FirewallName(NETWORK_NAME)}]
          /\ StepReturns(r, "create_network", <<netCall(TRUE), fwCall(TRUE)>>)
          /\ UNCHANGED <<peerings, subnets, instances, failBudget>>
       \/ \* networks().list or networks().insert fails
          /\ TransientFailure
          /\ \E issued \in BOOLEAN :
                /\ issued => NETWORK_NAME \notin networks[p]
                /\ StepRaises(r, "create_network",
                              IF issued THEN <<netCall(FALSE)>> ELSE <<>>)
          /\ UNCHANGED cloudVars
       \/ \* the network is created, the firewall insert fails
          /\ TransientFailure
          /\ NETWORK_NAME \notin networks[p]
          /\ networks' = [networks EXCEPT ![p] = @ \cup {NETWORK_NAME}]
          /\ StepRaises(r, "create_network", <<netCall(TRUE), fwCall(FALSE)>>)
          /\ UNCHANGED <<firewalls, peerings, subnets, instances>>
    /\ UNCHANGED outsideSetup
    /\ UNCHANGED <<study, gcp, todo, runsLeft, startPeer, startSubnets, startNets>>

(***************************************************************************)
(* remove_conflicting_peerings (one attempt of the retried method).        *)
(***************************************************************************)
\* the projects the listed peerings are read as
ListedPeers(p) == {ParsePeering(n) : n \in peerings[p]}

\* the name removePeering is called with for a listed peering
RemovalTarget(name) == PeeringName(ParsePeering(name))

\* the listed peerings whose project is not in gcp_projects
StaleNames(p, list) == {n \in peerings[p] : ParsePeering(n) \notin SeqToSet(list)}

\* sets of listed peerings whose removal calls all find their target
Removable(p, names) ==
    {B \in SUBSET names :
        /\ \A n \in B : RemovalTarget(n) \in peerings[p]
        /\ \A n, m \in B : RemovalTarget(n) = RemovalTarget(m) => n = m}

RemoveCalls(B, ok) == CallsOf({RemovalTarget(n) : n \in B}, "networks.removePeering", ok)

RemoveConflictingPeerings(r) ==
    LET p == ProjectOf(r)
        stale == StaleNames(p, gcp[r])
        targets == {RemovalTarget(n) : n \in stale}
        stage == "remove_conflicting_peerings"
    IN
    /\ pc[r] = stage
    /\ \/ \* every removal call returns
          /\ \E lenient \in BOOLEAN :
                lenient \/ stale \in Removable(p, stale)
          /\ peerings' = [peerings EXCEPT ![p] = @ \ targets]
          /\ StepReturns(r, stage, RemoveCalls(stale, TRUE))
          /\ UNCHANGED failBudget
       \/ \* the cloud rejects the removal of a peering that is not there
          /\ \E bad \in stale : \E B \in Removable(p, stale \ {bad}) :
                /\ \/ RemovalTarget(bad) \notin peerings[p]
                   \/ \E n \in B : RemovalTarget(n) = RemovalTarget(bad)
                /\ peerings' = [peerings EXCEPT ![p] = @ \ {RemovalTarget(n) : n \in B}]
                /\ AttemptRaises(r, stage,
                       RemoveCalls(B, TRUE) \o RemoveCalls({bad}, FALSE),
                       PeeringRemoveAttempts)
          /\ UNCHANGED failBudget
       \/ \* networks().get or a removal call fails transiently
          /\ TransientFailure
          /\ \E B \in Removable(p, stale) : \E failing \in SUBSET (stale \ B) :
                /\ Cardinality(failing) <= 1
                /\ failing = {} => B = {}
                /\ peerings' = [peerings EXCEPT ![p] = @ \ {RemovalTarget(n) : n \in B}]
                /\ AttemptRaises(r, stage,
                       RemoveCalls(B, TRUE) \o RemoveCalls(failing, FALSE),
                       PeeringRemoveAttempts)
    /\ UNCHANGED outsideSetup
    /\ UNCHANGED <<networks, firewalls, subnets, instances, study, gcp, todo,
                   runsLeft, startPeer, startSubnets, startNets>>

(***************************************************************************)
(* remove_conflicting_subnets and delete_subnet.                           *)
(***************************************************************************)
\* ip_cidr_ranges_for_this_network
ExpectedRanges(list, self) ==
    {ExpectedRange(i) : i \in {j \in 0..(ExpectedIndexCount - 1) : list[j + 1] = self}}

\* the subnets the loop calls delete_subnet on
ConflictingSubnets(p, list) ==
    {s \in subnets[p] :
        /\ Contains(NetworkUrl(p, s.network), NETWORK_NAME)
        /\ s.range \notin ExpectedRanges(list, p)
        /\ \E n2 \in ExpectedRanges(list, p) : Overlaps(s.range, n2)}

RemoveConflictingSubnets(r) ==
    LET p == ProjectOf(r)
        stage == "remove_conflicting_subnets"
    IN
    /\ pc[r] = stage
    /\ \/ \* gcp_projects[i] reads past the end of the list: IndexError
          /\ Len(gcp[r]) < ExpectedIndexCount
          /\ StepRaises(r, stage, <<>>)
          /\ UNCHANGED <<todo, failBudget>>
       \/ \* nothing conflicts
          /\ Len(gcp[r]) >= ExpectedIndexCount
          /\ ConflictingSubnets(p, gcp[r]) = {}
          /\ StepReturns(r, stage, <<>>)
          /\ UNCHANGED <<todo, failBudget>>
       \/ \* the conflicting subnets are deleted one by one
          /\ Len(gcp[r]) >= ExpectedIndexCount
          /\ ConflictingSubnets(p, gcp[r]) # {}
          /\ todo' = [todo EXCEPT ![r] = ConflictingSubnets(p, gcp[r])]
          /\ pc' = [pc EXCEPT ![r] = "delete_subnet"]
          /\ attempt' = [attempt EXCEPT ![r] = 1]
          /\ UNCHANGED <<log, prevDone, failBudget, inflight>>
       \/ \* subnetworks().list fails
          /\ TransientFailure
          /\ StepRaises(r, stage, <<>>)
          /\ UNCHANGED todo
    /\ UNCHANGED outsideSetup
    /\ UNCHANGED <<cloudVars, study, gcp, runsLeft, startPeer, startSubnets, startNets>>

\* list_instances(zone, subnetwork): `subnetwork in instance[..]["subnetwork"]`
ListInstances(p, subnetwork) ==
    {i \in instances[p] : i.zone = ZONE /\ Contains(SubnetUrl(p, i.subnet), subnetwork)}

DeleteSubnet(r) ==
    LET p == ProjectOf(r)
        stage == "remove_conflicting_subnets"
        s == CHOOSE x \in todo[r] : TRUE
        attached == ListInstances(p, SubnetUrl(p, s.name))
        instCalls(D, ok) == CallsOf({i.name : i \in D}, "instances.delete", ok)
        subCall(ok) == Call("subnetworks.delete", s.name, ok)
        \* delete_subnet returned: the loop goes on, or the step returns
        returned(calls) ==
            /\ todo' = [todo EXCEPT ![r] = @ \ {s}]
            /\ IF todo[r] = {s}
               THEN StepReturns(r, stage, calls)
               ELSE /\ attempt' = [attempt EXCEPT ![r] = 1]
                    /\ log' = [log EXCEPT ![r] = @ \o calls]
                    /\ UNCHANGED <<pc, prevDone, inflight>>
    IN
    /\ pc[r] = "delete_subnet"
    /\ \/ \* instances evacuated, subnet deleted and seen gone
          /\ s \in subnets[p]
          /\ instances' = [instances EXCEPT ![p] = @ \ attached]
          /\ subnets' = [subnets EXCEPT ![p] = @ \ {s}]
          /\ returned(instCalls(attached, TRUE) \o <<subCall(TRUE)>>)
          /\ UNCHANGED failBudget
       \/ \* the subnet is already gone (an earlier attempt deleted it)
          /\ s \notin subnets[p]
          /\ instances' = [instances EXCEPT ![p] = @ \ attached]
          /\ \E lenient \in BOOLEAN :
                IF lenient
                THEN returned(instCalls(attached, TRUE) \o <<subCall(TRUE)>>)
                ELSE /\ AttemptRaises(r, stage,
                            instCalls(attached, TRUE) \o <<subCall(FALSE)>>,
                            DeleteSubnetAttempts)
                     /\ UNCHANGED todo
          /\ UNCHANGED <<subnets, failBudget>>
       \/ \* listing or deleting an instance fails
          /\ TransientFailure
          /\ \E D \in SUBSET attached : \E failing \in SUBSET (attached \ D) :
                /\ Cardinality(failing) <= 1
                /\ failing = {} => D = {}
                /\ instances' = [instances EXCEPT ![p] = @ \ D]
                /\ AttemptRaises(r, stage,
                       instCalls(D, TRUE) \o instCalls(failing, FALSE),
                       DeleteSubnetAttempts)
          /\ UNCHANGED <<subnets, todo>>
       \/ \* subnetworks().delete fails, or the listing that confirms the deletion
          /\ TransientFailure
          /\ s \in subnets[p]
          /\ instances' = [instances EXCEPT ![p] = @ \ attached]
          /\ \E deleted \in BOOLEAN :
                /\ subnets' = [subnets EXCEPT ![p] = IF deleted THEN @ \ {s} ELSE @]
                /\ AttemptRaises(r, stage,
                       instCalls(attached, TRUE) \o <<subCall(deleted)>>,
                       DeleteSubnetAttempts)
          /\ UNCHANGED todo
       \/ \* the subnet stays listed: quit(1)
          /\ TransientFailure
          /\ s \in subnets[p]
          /\ instances' = [instances EXCEPT ![p] = @ \ attached]
          /\ pc' = [pc EXCEPT ![r] = "exited"]
          /\ log' = [log EXCEPT ![r] =
                        @ \o instCalls(attached, TRUE) \o <<subCall(TRUE)>>]
          /\ UNCHANGED <<subnets, todo, attempt, prevDone, inflight>>
    /\ UNCHANGED outsideSetup
    /\ UNCHANGED <<networks, firewalls, peerings, study, gcp,
                   runsLeft, startPeer, startSubnets, startNets>>

(***************************************************************************)
(* create_subnet (one attempt of the retried method).                      *)
(***************************************************************************)
\* the cloud refuses a subnet whose range overlaps one of the same network
CloudAcceptsSubnet(p, new) ==
    /\ new.network \in networks[p]
    /\ \A s \in subnets[p] : s.network = new.network => ~Overlaps(s.range, new.range)

CreateSubnet(r) ==
    LET p == ProjectOf(r)
        stage == "create_subnet"
        new == Subnet(SubnetName(r), NETWORK_NAME, SubnetRange(r))
        listed == {s.name : s \in subnets[p]}
        insert(ok) == Call("subnetworks.insert", new.name, ok)
    IN
    /\ pc[r] = stage
    /\ \/ \* a subnet of that name is listed: nothing is created
          /\ new.name \in listed
          /\ StepReturns(r, stage, <<>>)
          /\ UNCHANGED <<subnets, failBudget>>
       \/ \* the subnet is inserted and its operation waited for
          /\ new.name \notin listed
          /\ CloudAcceptsSubnet(p, new)
          /\ subnets' = [subnets EXCEPT ![p] = @ \cup {new}]
          /\ StepReturns(r, stage, <<insert(TRUE)>>)
          /\ UNCHANGED failBudget
       \/ \* the cloud refuses the insert
          /\ new.name \notin listed
          /\ ~CloudAcceptsSubnet(p, new)
          /\ AttemptRaises(r, stage, <<insert(FALSE)>>, CreateSubnetAttempts)
          /\ UNCHANGED <<subnets, failBudget>>
       \/ \* a listing, the insert or the polling of its operation fails
          /\ TransientFailure
          /\ \E issued \in BOOLEAN : \E created \in BOOLEAN :
                /\ issued => new.name \notin listed
                /\ created => issued /\ CloudAcceptsSubnet(p, new)
                /\ subnets' = [subnets EXCEPT ![p] = IF created THEN @ \cup {new} ELSE @]
                /\ AttemptRaises(r, stage,
                       IF issued THEN <<insert(created)>> ELSE <<>>,
                       CreateSubnetAttempts)
    /\ UNCHANGED outsideSetup
    /\ UNCHANGED <<networks, firewalls, peerings, instances, study, gcp, todo,
                   runsLeft, startPeer, startSubnets, startNets>>

(***************************************************************************)
(* create_peerings (one attempt of the retried method).                    *)
(***************************************************************************)
\* other_projects, and those of them the loop calls addPeering for, in order
OtherProjects(list, self) == SelectSeq(list, LAMBDA q : q # self)

WantedPeers(p, list) ==
    SelectSeq(OtherProjects(list, p), LAMBDA q : q \notin ListedPeers(p))

\* the peering names the first k calls create
AddedBy(wanted, k) == {PeeringName(wanted[i]) : i \in 1..k}

\* the k-th call asks for a peering name that is not there yet
Fresh(p, wanted, k) == PeeringName(wanted[k]) \notin (peerings[p] \cup AddedBy(wanted, k - 1))

AddCalls(wanted, k, ok) ==
    [i \in 1..k |-> Call("networks.addPeering", wanted[i], ok)]

\* a peering that, once added in a project, also appeared in the remote project
AddPeeringsBothSides(p, wanted, k) ==
    [q \in DOMAIN peerings |->
        IF q = p THEN peerings[q] \cup AddedBy(wanted, k)
        ELSE IF \E i \in 1..k : wanted[i] = q
             THEN peerings[q] \cup {PeeringName(p)}
             ELSE peerings[q]]

\* the peerings after the first k addPeering calls: project=self.project,
\* network=NETWORK_NAME; the remote project is only named in the body
AddPeerings(p, wanted, k) ==
    [peerings EXCEPT ![p] = @ \cup AddedBy(wanted, k)]

CreatePeerings(r) ==
    LET p == ProjectOf(r)
        stage == "create_peerings"
        wanted == WantedPeers(p, gcp[r])
        n == Len(wanted)
    IN
    /\ pc[r] = stage
    /\ \/ \* every addPeering call returns
          /\ \E lenient \in BOOLEAN :
                lenient \/ \A k \in 1..n : Fresh(p, wanted, k)
          /\ peerings' = AddPeerings(p, wanted, n)
          /\ StepReturns(r, stage, AddCalls(wanted, n, TRUE))
          /\ UNCHANGED failBudget
       \/ \* the cloud rejects a peering name that already exists
          /\ \E k \in 1..n :
                /\ ~Fresh(p, wanted, k)
                /\ \A i \in 1..(k - 1) : Fresh(p, wanted, i)
                /\ peerings' = AddPeerings(p, wanted, k - 1)
                /\ AttemptRaises(r, stage,
                       AddCalls(wanted, k - 1, TRUE)
                           \o <<Call("networks.addPeering", wanted[k], FALSE)>>,
                       CreatePeeringsAttempts)
          /\ UNCHANGED failBudget
       \/ \* networks().get or an addPeering call fails transiently
          /\ TransientFailure
          /\ \E k \in 0..n :
                /\ \A i \in 1..k : Fresh(p, wanted, i)
                /\ k = n => k = 0
                /\ peerings' = AddPeerings(p, wanted, k)
                /\ AttemptRaises(r, stage,
                       AddCalls(wanted, k, TRUE)
                           \o (IF k < n
                               THEN <<Call("networks.addPeering", wanted[k + 1], FALSE)>>
                               ELSE <<>>),
                       CreatePeeringsAttempts)
    /\ UNCHANGED outsideSetup
    /\ UNCHANGED <<networks, firewalls, subnets, instances, study, gcp, todo,
                   runsLeft, startPeer, startSubnets, startNets>>

(***************************************************************************)
(* An operation that the run started and did not wait for reaches its      *)
(* terminal state, whenever the provider gets to it while the run lasts.   *)
(***************************************************************************)
OperationCompletes(r) ==
    /\ pc[r] \in SeqToSet(SetupOrder) \cup {"delete_subnet"}
    /\ inflight[r] > 0
    /\ inflight' = [inflight EXCEPT ![r] = @ - 1]
    /\ UNCHANGED <<cloudVars, study, failBudget, pc, gcp, todo, attempt, log,
                   runsLeft, prevDone, startPeer, startSubnets, startNets>>
    /\ UNCHANGED outsideSetup

(***************************************************************************)
(* Initial states: a study, and what earlier studies left in the projects. *)
(***************************************************************************)
\* GCP_PROJECT of the participants ("Broad" first), as a study may have them
StudyLists ==
    { <<P0>>, <<P0, P1>>, <<P0, P1, P2>>, <<P0, P1, P1>>, <<P0, P1, PX>>, <<P2, P1>> }

\* remote projects the study network of a project may already be peered with
PeerTemplates == { {}, {P2}, {P0, P1, P2}, {PX}, {P1, PX} }

\* subnets a project may already hold (names unique, no overlap within a network)
SubnetTemplates ==
    { {},
      { Subnet(SubnetName(0), NETWORK_NAME, SubnetRange(0)),
        Subnet(SubnetName(1), NETWORK_NAME, SubnetRange(1)) },
      { Subnet(<<"old">>, NETWORK_NAME, Cidr(Ip(10, 0, 5, 0), 24)) },
      { Subnet(<<"old">>, NETWORK_NAME, Cidr(Ip(10, 0, 1, 16), 28)),
        Subnet(<<"other">>, OTHER_NETWORK, Cidr(Ip(10, 0, 1, 0), 24)) },
      { Subnet(SubnetName(1), NETWORK_NAME, Cidr(Ip(10, 0, 1, 0), 24)),
        Subnet(SubnetName(2), NETWORK_NAME, Cidr(Ip(10, 0, 2, 0), 24)) },
      { Subnet(<<"wide">>, NETWORK_NAME, Cidr(Ip(10, 0, 0, 0), 22)) } }

\* a virtual machine attached to a subnet
VmOn(s) == Instance(<<"vm-">> \o s.name, s.name)

InitCloud(net, peers, subs, vms) ==
    /\ networks = [p \in Projects |->
                      {OTHER_NETWORK} \cup (IF net = "absent" THEN {} ELSE {NETWORK_NAME})]
    /\ firewalls = [p \in Projects |->
                      IF net = "full" THEN {FirewallName(NETWORK_NAME)} ELSE {}]
    /\ peerings = [p \in Projects |->
                      IF net = "absent" THEN {}
                      ELSE {PeeringName(q) : q \in peers \ {p}}]
    /\ subnets = [p \in Projects |->
                      {s \in subs : net = "absent" => s.network # NETWORK_NAME}]
    /\ instances = [p \in Projects |->
                      IF vms THEN {VmOn(s) : s \in subnets[p]} ELSE {}]

\* the auth key make_auth_key stored for the participant at an index
AuthKeyOf(i) == <<"key">> \o RoleStr(i - 1)

\* the study document: as create_study and the joins leave it, or as a protocol
\* run leaves it
InitDocument(list, started) ==
    /\ study = list
    /\ doc = [exists |-> TRUE,
              status |-> [i \in 1..Len(list) |->
                            IF started THEN "running"
                            ELSE IF i = 1 THEN "ready to begin protocol" ELSE ""],
              publicKey |-> [i \in 1..Len(list) |-> IF started THEN "pk" ELSE ""],
              ipAddress |-> [i \in 1..Len(list) |-> IF started THEN "ip" ELSE ""],
              authKey |-> [i \in 1..Len(list) |-> AuthKeyOf(i)]]
    /\ authKeys = {AuthKeyOf(i) : i \in 1..Len(list)} \cup {<<"key-of-another-study">>}
    /\ deletedStudies = {}

\* no restart or delete request is being served
NoRequest == [kind |-> "none", pc |-> "idle", idx |-> 1, dict |-> <<>>]

\* setup_instance is not being called
NoCall == [pc |-> "idle"]

\* no ranges are being compared
NoComparison == [state |-> "idle"]

\* delete_subnet is not being called on its own
NoDelete == [pc |-> "idle"]

\* start_protocol is not being called
NoStart == [calls |-> <<>>, started |-> {}]

\* no operation is being waited for
NoWait == [scope |-> "none", polls |-> <<>>, pos |-> 0, state |-> "idle", result |-> <<>>,
           caller |-> "none"]

InitRequest ==
    /\ handler = NoRequest
    /\ threads = <<>>
    /\ teardownLog = <<>>
    /\ failedProjects = {}

InitOrchestrators(active, runs) ==
    /\ pc = [r \in Roles |-> "idle"]
    /\ gcp = [r \in Roles |-> <<>>]
    /\ todo = [r \in Roles |-> {}]
    /\ attempt = [r \in Roles |-> 1]
    /\ log = [r \in Roles |-> <<>>]
    /\ runsLeft = [r \in Roles |-> IF r \in active THEN runs ELSE 0]
    /\ prevDone = [r \in Roles |-> FALSE]
    /\ startPeer = [r \in Roles |-> {}]
    /\ startSubnets = [r \in Roles |-> {}]
    /\ startNets = [r \in Roles |-> {}]
    /\ inflight = [r \in Roles |-> 0]

InitRuns(list, active, runs) ==
    /\ InitDocument(list, FALSE)
    /\ InitRequest
    /\ waiter = NoWait
    /\ si = NoCall
    /\ rc = NoComparison
    /\ ds = NoDelete
    /\ sp = NoStart
    /\ InitOrchestrators(active, runs)

\* one orchestrator of the study is run, up to MaxRuns times in a row
Init ==
    /\ \E list \in StudyLists : \E r \in RolesOf(list) : InitRuns(list, {r}, MaxRuns)
    /\ \E net \in {"absent", "bare", "full"} : \E peers \in PeerTemplates :
       \E subs \in SubnetTemplates : \E vms \in BOOLEAN :
          /\ net = "absent" => peers = {}
          /\ InitCloud(net, peers, subs, vms)
    /\ failBudget = MaxFail

Next ==
    \E r \in Roles :
        \/ StartSetup(r)
        \/ CreateNetwork(r)
        \/ RemoveConflictingPeerings(r)
        \/ RemoveConflictingSubnets(r)
        \/ DeleteSubnet(r)
        \/ CreateSubnet(r)
        \/ CreatePeerings(r)
        \/ OperationCompletes(r)

Spec == Init /\ [][Next]_vars

\* every orchestrator of the study is run once, in any interleaving
InitAll ==
    /\ \E list \in {<<P0, P1>>, <<P0, P1, PX>>, <<P2, P1>>} :
          InitRuns(list, RolesOf(list), 1)
    /\ \E net \in {"absent", "full"} : \E peers \in {{}, {P2}, {PX}} :
       \E subs \in SubnetTemplates :
          /\ net = "absent" => peers = {}
          /\ Cardinality(subs) = 2 \/ subs = {}
          /\ InitCloud(net, peers, subs, FALSE)
    /\ failBudget = MaxFail

SpecAll == InitAll /\ [][Next]_vars

\* one orchestrator is run in projects that hold a third network and subnets
\* left in it and in the study network
PruneTemplates ==
    { { Subnet(<<"old">>, SIMILAR_NETWORK, Cidr(Ip(10, 0, 0, 0), 22)) },
      { Subnet(<<"old">>, NETWORK_NAME, Cidr(Ip(10, 0, 0, 0), 22)),
        Subnet(<<"other">>, OTHER_NETWORK, Cidr(Ip(10, 0, 0, 0), 22)) },
      { Subnet(<<"far">>, NETWORK_NAME, Cidr(Ip(10, 0, 9, 0), 24)),
        Subnet(<<"exact">>, NETWORK_NAME, ExpectedRange(2)) },
      { Subnet(SubnetName(1), OTHER_NETWORK, Cidr(Ip(10, 0, 1, 0), 24)),
        Subnet(SubnetName(2), NETWORK_NAME, Cidr(Ip(10, 0, 9, 0), 24)) } }

InitPrune ==
    /\ \E list \in {<<P0, P1, P2>>, <<P0, P1, P1>>} : \E r \in RolesOf(list) :
          InitRuns(list, {r}, MaxRuns)
    /\ networks = [p \in Projects |-> {OTHER_NETWORK, NETWORK_NAME, SIMILAR_NETWORK}]
    /\ firewalls = [p \in Projects |-> {FirewallName(NETWORK_NAME)}]
    /\ \E peers \in {{}, {P2}} :
          peerings = [p \in Projects |-> {PeeringName(q) : q \in peers \ {p}}]
    /\ \E subs \in PruneTemplates : \E vms \in BOOLEAN :
          /\ subnets = [p \in Projects |-> subs]
          /\ instances = [p \in Projects |-> IF vms THEN {VmOn(s) : s \in subs} ELSE {}]
    /\ failBudget = MaxFail

SpecPrune == InitPrune /\ [][Next]_vars

(***************************************************************************)
(* Teardown: restart_study and delete_study, of studies.py (the handler    *)
(* starts threads) and of web/study.py (the handler deletes in sequence).  *)
(***************************************************************************)
STUDY_TITLE == <<"study1">>
OTHER_STUDY == <<"study2">>

\* GCP_PROJECT "": the participant has not configured a project
NoProject == <<>>

\* create_instance_name / format_instance_name (study, role)
InstanceName(title, role) == title \o <<"-sfkit">> \o RoleStr(role)

\* the instance names of a study, whatever the role
StudyInstanceNames(title) == {InstanceName(title, r) : r \in Roles}

HandlerKinds ==
    {"studies.restart_study", "web.restart_study",
     "studies.delete_study", "web.delete_study"}

\* doc_ref.get().to_dict()
DocRefDict == [participants |-> study, doc |-> doc]

Thread(target, project, instance) ==
    [target |-> target, project |-> project, instance |-> instance,
     idx |-> 1, state |-> "running"]

DeleteCall(op, project, name, ok) == Call(op, <<project, name>>, ok)

\* the handler is in its loop over the participants, at one of them
InLoop(kind) ==
    /\ handler.kind = kind
    /\ handler.pc = "loop"
    /\ handler.idx <= Len(handler.dict.participants)

\* the handler thread ends with the exception of a cloud call for a project
HandlerRaises(project) ==
    /\ TransientFailure
    /\ handler' = [handler EXCEPT !.pc = "raised"]
    /\ failedProjects' = failedProjects \cup {project}

\* the request arrives and the handler reads the study document
FetchStudy ==
    /\ handler.pc = "idle"
    /\ doc.exists
    /\ \E kind \in HandlerKinds :
          handler' = [kind |-> kind, pc |-> "loop", idx |-> 1, dict |-> DocRefDict]
    /\ UNCHANGED <<cloudVars, study, outsideTeardown, failBudget, doc, authKeys,
                   deletedStudies, threads, teardownLog, failedProjects>>

(***************************************************************************)
(* studies.py restart_study: one delete_instance thread per listed         *)
(* instance that bears the name of the participant's role.                 *)
(***************************************************************************)
\* the instances of the study in the project, whatever the role they are named for
MatchingAnyRole(project, role) ==
    {i \in ListInstances(project, <<>>) : i.name \in StudyInstanceNames(STUDY_TITLE)}

\* the instances of the project whose name is the name of the role
MatchingInstances(project, role) ==
    {i \in ListInstances(project, <<>>) : i.name = InstanceName(STUDY_TITLE, role)}

\* a restart that also deleted the subnets of every project
RestartPrunesSubnets ==
    /\ UNCHANGED <<networks, peerings>>
    /\ subnets' = [p \in Projects |-> {}]

\* neither restart handler makes a call on a network, a subnet or a peering
RestartLeavesAlone == UNCHANGED <<networks, peerings, subnets>>

RestartStartThreads ==
    LET project == handler.dict.participants[handler.idx]
        role == handler.idx - 1
        started == SetToSeq({Thread("delete_instance", project, i.name) :
                                i \in MatchingInstances(project, role)})
    IN
    /\ InLoop("studies.restart_study")
    /\ \/ /\ project = NoProject
          /\ handler' = [handler EXCEPT !.idx = @ + 1]
          /\ UNCHANGED <<threads, failBudget, failedProjects>>
       \/ \* list_instances returns: a thread is started for each match
          /\ project # NoProject
          /\ handler' = [handler EXCEPT !.idx = @ + 1]
          /\ threads' = threads \o started
          /\ UNCHANGED <<failBudget, failedProjects>>
       \/ \* list_instances raises in the handler thread
          /\ project # NoProject
          /\ HandlerRaises(project)
          /\ UNCHANGED threads
    /\ RestartLeavesAlone
    /\ UNCHANGED <<firewalls, instances, study, outsideTeardown, doc, authKeys,
                   deletedStudies, teardownLog>>

\* delete_instance(name), the target of a thread: delete, then wait
DeleteInstanceThread ==
    \E k \in 1..Len(threads) :
        LET t == threads[k]
            there == \E i \in instances[t.project] : i.name = t.instance
        IN
        /\ t.target = "delete_instance"
        /\ t.state = "running"
        /\ \/ /\ there
              /\ instances' = [instances EXCEPT
                                  ![t.project] = {i \in @ : i.name # t.instance}]
              /\ threads' = [threads EXCEPT ![k].state = "finished"]
              /\ teardownLog' = Append(teardownLog,
                    DeleteCall("instances.delete", t.project, t.instance, TRUE))
              /\ UNCHANGED <<failBudget, failedProjects>>
           \/ \* the call fails: the exception ends the thread
              /\ TransientFailure
              /\ threads' = [threads EXCEPT ![k].state = "raised"]
              /\ failedProjects' = failedProjects \cup {t.project}
              /\ teardownLog' = Append(teardownLog,
                    DeleteCall("instances.delete", t.project, t.instance, FALSE))
              /\ UNCHANGED instances
        /\ RestartLeavesAlone
        /\ UNCHANGED <<firewalls, study, outsideTeardown, doc, authKeys, deletedStudies,
                       handler>>

\* a join that returns at once, whatever the threads do
JoinNothing(list) == TRUE

\* for t in threads: t.join() returns once every thread has ended
Joined(list) == \A k \in 1..Len(list) : list[k].state # "running"

RestartJoin ==
    /\ handler.kind = "studies.restart_study"
    /\ handler.pc = "loop"
    /\ handler.idx > Len(handler.dict.participants)
    /\ Joined(threads)
    /\ handler' = [handler EXCEPT !.pc = "reset"]
    /\ RestartLeavesAlone
    /\ UNCHANGED <<firewalls, instances, study, outsideTeardown, failBudget, doc,
                   authKeys, deletedStudies, threads, teardownLog, failedProjects>>

(***************************************************************************)
(* web/study.py restart_study: the handler deletes in sequence.            *)
(***************************************************************************)
\* delete_firewall: the firewall rule of the study network is removed
WithoutFirewall(rules) == rules \ {FirewallName(NETWORK_NAME)}

InstanceDeleteCalls(project, S, ok) ==
    [k \in 1..Len(SetToSeq(S)) |->
        DeleteCall("instances.delete", project, SetToSeq(S)[k].name, ok)]

FirewallDeleteCall(project, ok) ==
    DeleteCall("firewalls.delete", project, FirewallName(NETWORK_NAME), ok)

WebRestartLoop ==
    LET project == handler.dict.participants[handler.idx]
        role == handler.idx - 1
        mine == MatchingInstances(project, role)
    IN
    /\ InLoop("web.restart_study")
    /\ \/ /\ project = NoProject
          /\ handler' = [handler EXCEPT !.idx = @ + 1]
          /\ UNCHANGED <<instances, firewalls, teardownLog, failBudget, failedProjects>>
       \/ \* the role's instance is deleted and waited for, then the firewall rule
          /\ project # NoProject
          /\ instances' = [instances EXCEPT ![project] = @ \ mine]
          /\ firewalls' = [firewalls EXCEPT ![project] = WithoutFirewall(@)]
          /\ teardownLog' = teardownLog \o InstanceDeleteCalls(project, mine, TRUE)
                                \o <<FirewallDeleteCall(project, TRUE)>>
          /\ handler' = [handler EXCEPT !.idx = @ + 1]
          /\ UNCHANGED <<failBudget, failedProjects>>
       \/ \* list_instances or delete_instance raises
          /\ project # NoProject
          /\ HandlerRaises(project)
          /\ \E issued \in BOOLEAN :
                /\ issued => mine # {}
                /\ teardownLog' = teardownLog \o
                      (IF issued THEN InstanceDeleteCalls(project, mine, FALSE) ELSE <<>>)
          /\ UNCHANGED <<instances, firewalls>>
       \/ \* delete_firewall raises
          /\ project # NoProject
          /\ HandlerRaises(project)
          /\ instances' = [instances EXCEPT ![project] = @ \ mine]
          /\ teardownLog' = teardownLog \o InstanceDeleteCalls(project, mine, TRUE)
                                \o <<FirewallDeleteCall(project, FALSE)>>
          /\ UNCHANGED firewalls
    /\ RestartLeavesAlone
    /\ UNCHANGED <<study, outsideTeardown, doc, authKeys, deletedStudies, threads>>

\* both restart handlers: the statuses and keys are reset, the document is set
RestartReset ==
    LET d == handler.dict
        n == Len(d.participants)
        web == handler.kind = "web.restart_study"
    IN
    /\ \/ handler.kind = "studies.restart_study" /\ handler.pc = "reset"
       \/ web /\ handler.pc = "loop" /\ handler.idx > n
    /\ doc' = [d.doc EXCEPT
                  !.exists = TRUE,
                  !.status = [i \in 1..n |->
                                 IF i = 1 THEN "ready to begin protocol" ELSE ""],
                  !.publicKey = [i \in 1..n |-> ""],
                  !.ipAddress = IF web THEN [i \in 1..n |-> ""] ELSE @]
    /\ study' = d.participants
    /\ handler' = [handler EXCEPT !.pc = "done"]
    /\ RestartLeavesAlone
    /\ UNCHANGED <<firewalls, instances, outsideTeardown, failBudget, authKeys,
                   deletedStudies, threads, teardownLog, failedProjects>>

(***************************************************************************)
(* delete_study: delete_everything for each project, in a background       *)
(* thread (studies.py) or in the handler (web/study.py).                   *)
(***************************************************************************)
\* delete_everything of the object bound to (study, project): the instances
\* of the study, then the firewall rule; it may fail first or half-way
DeleteEverything(project, outcome) ==
    LET mine == {i \in instances[project] : i.name \in StudyInstanceNames(STUDY_TITLE)}
    IN
    /\ instances' = IF outcome = "fails" THEN instances
                    ELSE [instances EXCEPT ![project] = @ \ mine]
    /\ firewalls' = IF outcome = "ok"
                    THEN [firewalls EXCEPT ![project] = WithoutFirewall(@)]
                    ELSE firewalls
    /\ teardownLog' = teardownLog \o
          (IF outcome = "fails" THEN <<>>
           ELSE InstanceDeleteCalls(project, mine, TRUE)
                    \o <<FirewallDeleteCall(project, outcome = "ok")>>)

\* Thread(target=delete_gcp_stuff_background, args=(doc_ref_dict,)).start()
DeleteStartBackground ==
    /\ handler.kind = "studies.delete_study"
    /\ handler.pc = "loop"
    /\ threads' = Append(threads, Thread("delete_gcp_stuff_background", NoProject, <<>>))
    /\ handler' = [handler EXCEPT !.pc = "auth_keys"]
    /\ UNCHANGED <<cloudVars, study, outsideTeardown, failBudget, doc, authKeys,
                   deletedStudies, teardownLog, failedProjects>>

\* one turn of the loop of delete_gcp_stuff_background
DeleteGcpStuffBackground ==
    \E k \in 1..Len(threads) :
        LET t == threads[k]
            n == Len(handler.dict.participants)
            project == handler.dict.participants[t.idx]
            goesOn == [t EXCEPT !.idx = @ + 1,
                                !.state = IF t.idx = n THEN "finished" ELSE "running"]
        IN
        /\ t.target = "delete_gcp_stuff_background"
        /\ t.state = "running"
        /\ \/ /\ project = NoProject
              /\ threads' = [threads EXCEPT ![k] = goesOn]
              /\ UNCHANGED <<instances, firewalls, teardownLog, failBudget,
                             failedProjects>>
           \/ /\ project # NoProject
              /\ DeleteEverything(project, "ok")
              /\ threads' = [threads EXCEPT ![k] = goesOn]
              /\ UNCHANGED <<failBudget, failedProjects>>
           \/ \* the exception ends the thread
              /\ project # NoProject
              /\ TransientFailure
              /\ \E outcome \in {"fails", "fails late"} :
                    DeleteEverything(project, outcome)
              /\ threads' = [threads EXCEPT ![k].state = "raised"]
              /\ failedProjects' = failedProjects \cup {project}
        /\ UNCHANGED <<networks, peerings, subnets, study, outsideTeardown, doc,
                       authKeys, deletedStudies, handler>>

WebDeleteLoop ==
    LET project == handler.dict.participants[handler.idx]
    IN
    /\ InLoop("web.delete_study")
    /\ \/ /\ project = NoProject
          /\ handler' = [handler EXCEPT !.idx = @ + 1]
          /\ UNCHANGED <<instances, firewalls, teardownLog, failBudget, failedProjects>>
       \/ /\ project # NoProject
          /\ DeleteEverything(project, "ok")
          /\ handler' = [handler EXCEPT !.idx = @ + 1]
          /\ UNCHANGED <<failBudget, failedProjects>>
       \/ /\ project # NoProject
          /\ HandlerRaises(project)
          /\ \E outcome \in {"fails", "fails late"} : DeleteEverything(project, outcome)
    /\ UNCHANGED <<networks, peerings, subnets, study, outsideTeardown, doc, authKeys,
                   deletedStudies, threads>>

\* the auth key of the first participant only
FirstAuthKeyOnly(d) == {d.doc.authKey[1]} \ {<<>>}

\* the AUTH_KEY values of the participants that are not empty
StudyAuthKeys(d) ==
    {d.doc.authKey[i] : i \in {j \in 1..Len(d.participants) : d.doc.authKey[j] # <<>>}}

\* both delete handlers: the auth keys of the participants are deleted
DeleteAuthKeys ==
    LET d == handler.dict
        n == Len(d.participants)
    IN
    /\ \/ handler.kind = "studies.delete_study" /\ handler.pc = "auth_keys"
       \/ handler.kind = "web.delete_study" /\ handler.pc = "loop" /\ handler.idx > n
    /\ authKeys' = authKeys \ StudyAuthKeys(d)
    /\ handler' = [handler EXCEPT !.pc = "save"]
    /\ UNCHANGED <<cloudVars, study, outsideTeardown, failBudget, doc, deletedStudies,
                   threads, teardownLog, failedProjects>>

\* db.collection("deleted_studies").document(..).set(doc_ref_dict)
SaveDeletedStudy ==
    /\ handler.pc = "save"
    /\ deletedStudies' = deletedStudies \cup {handler.dict}
    /\ handler' = [handler EXCEPT !.pc = "delete"]
    /\ UNCHANGED <<cloudVars, study, outsideTeardown, failBudget, doc, authKeys,
                   threads, teardownLog, failedProjects>>

\* doc_ref.delete()
DeleteDocument ==
    /\ handler.pc = "delete"
    /\ doc' = [doc EXCEPT !.exists = FALSE]
    /\ handler' = [handler EXCEPT !.pc = "done"]
    /\ UNCHANGED <<cloudVars, study, outsideTeardown, failBudget, authKeys,
                   deletedStudies, threads, teardownLog, failedProjects>>

(***************************************************************************)
(* A study whose protocol has run, and one restart or delete request.      *)
(***************************************************************************)
TeardownLists == { <<P0, P1>>, <<P0, P1, P2>>, <<P0, NoProject, P1>>, <<P0, P1, P1>> }

InitTeardown ==
    /\ \E list \in TeardownLists : \E running \in SUBSET RolesOf(list) :
       \E foreign \in BOOLEAN :
          /\ InitDocument(list, TRUE)
          /\ instances = [p \in Projects |->
                {Instance(InstanceName(STUDY_TITLE, r), SubnetName(r)) :
                    r \in {x \in running : list[x + 1] = p}}
                \cup (IF foreign
                      THEN {Instance(InstanceName(OTHER_STUDY, 1), SubnetName(1))}
                      ELSE {})]
          /\ subnets = [p \in Projects |->
                {Subnet(SubnetName(r), NETWORK_NAME, SubnetRange(r)) :
                    r \in {x \in RolesOf(list) : list[x + 1] = p}}]
          /\ peerings = [p \in Projects |->
                IF p \in SeqToSet(list)
                THEN {PeeringName(q) : q \in (SeqToSet(GcpProjects(list)) \ {NoProject, p})}
                ELSE {}]
    /\ networks = [p \in Projects |-> {OTHER_NETWORK, NETWORK_NAME}]
    /\ firewalls = [p \in Projects |-> {FirewallName(NETWORK_NAME)}]
    /\ InitRequest
    /\ waiter = NoWait
    /\ si = NoCall
    /\ rc = NoComparison
    /\ ds = NoDelete
    /\ sp = NoStart
    /\ InitOrchestrators({}, 0)
    /\ failBudget = MaxFail

NextTeardown ==
    \/ FetchStudy
    \/ RestartStartThreads
    \/ DeleteInstanceThread
    \/ RestartJoin
    \/ WebRestartLoop
    \/ RestartReset
    \/ DeleteStartBackground
    \/ DeleteGcpStuffBackground
    \/ WebDeleteLoop
    \/ DeleteAuthKeys
    \/ SaveDeletedStudy
    \/ DeleteDocument

SpecTeardown == InitTeardown /\ [][NextTeardown]_vars

(***************************************************************************)
(* Membership changes between the creation of the instances and the        *)
(* restart or delete request: approve_join_study, accept_invitation,       *)
(* remove_participant.  Each reads the study document, changes the         *)
(* participant list and the per-participant fields, and sets the document. *)
(***************************************************************************)
\* list.remove(x) / del dict[x], for the participant at position i
Without(s, i) == [k \in 1..(Len(s) - 1) |-> IF k < i THEN s[k] ELSE s[k + 1]]

\* constants.default_user_parameters(study_type): every value empty
DefaultUserParameters ==
    [project |-> NoProject, publicKey |-> "", ipAddress |-> "", authKey |-> <<>>]

\* participants + [user], personal_parameters | {user: defaults}, status | {user: ""}
JoinStudy ==
    /\ handler.pc = "idle"
    /\ doc.exists
    /\ Len(study) < Cardinality(Roles)   \* one participant per role index
    /\ study' = Append(study, DefaultUserParameters.project)
    /\ doc' = [doc EXCEPT !.status = Append(@, ""),
                          !.publicKey = Append(@, DefaultUserParameters.publicKey),
                          !.ipAddress = Append(@, DefaultUserParameters.ipAddress),
                          !.authKey = Append(@, DefaultUserParameters.authKey)]
    /\ UNCHANGED <<cloudVars, outsideTeardown, failBudget, authKeys, deletedStudies,
                   handler, threads, teardownLog, failedProjects>>

\* the study owner approves a request to join
ApproveJoinStudy == JoinStudy

\* an invited user accepts the invitation
AcceptInvitation == JoinStudy

\* the study owner removes a participant other than the first ("Broad")
RemoveParticipant ==
    /\ handler.pc = "idle"
    /\ doc.exists
    /\ \E i \in 2..Len(study) :
          /\ study' = Without(study, i)
          /\ doc' = [doc EXCEPT !.status = Without(@, i),
                                !.publicKey = Without(@, i),
                                !.ipAddress = Without(@, i),
                                !.authKey = Without(@, i)]
    /\ UNCHANGED <<cloudVars, outsideTeardown, failBudget, authKeys, deletedStudies,
                   handler, threads, teardownLog, failedProjects>>

NextMembership ==
    \/ ApproveJoinStudy
    \/ AcceptInvitation
    \/ RemoveParticipant
    \/ NextTeardown

SpecMembership == InitTeardown /\ [][NextMembership]_vars

(***************************************************************************)
(* start_protocol: a participant declares itself ready; the call that sees *)
(* every participant ready starts the setup.  Each call reads the study    *)
(* document, works on the status map of that copy, and writes the map back *)
(* with doc_ref.set({"status": statuses}, merge=True).  A call record      *)
(* keeps the map as read, the map as the call holds it, how many calls the *)
(* participant made, how many ended with a message, whether one wrote;     *)
(* started holds (caller, call number) of the calls that started the setup.*)
(***************************************************************************)
\* how many times a participant may call start_protocol
MaxCalls == 2

READY == "ready to begin sfkit"

\* everything a call of start_protocol leaves alone
outsideStart == <<cloudVars, setupVars, study, failBudget, waiter, si, rc, ds,
                  authKeys, deletedStudies, handler, threads, teardownLog,
                  failedProjects>>

\* statuses.values()
StatusValues(statuses) == {statuses[i] : i \in DOMAIN statuses}

\* set(.., merge=True) of a map: every key written replaces the stored one,
\* the stored keys that are not written stay
MergeStatus(stored, written) ==
    [i \in DOMAIN stored |-> IF i \in DOMAIN written THEN written[i] ELSE stored[i]]

\* a call that starts the setup as soon as its caller is ready
SetupStartsWhenReady(statuses, u) == statuses[u] = READY

\* the branch that calls update_status_and_start_setup
SetupStarts(statuses, u) ==
    /\ "" \notin StatusValues(statuses)
    /\ statuses[u] = READY

\* doc_ref.get().to_dict(); statuses = doc_ref_dict["status"]
StartProtocolRead(u) ==
    /\ u \in DOMAIN sp.calls
    /\ doc.exists
    /\ sp.calls[u].pc \in {"idle", "done", "flashed"}
    /\ sp.calls[u].n < MaxCalls
    /\ \E ok \in BOOLEAN :
          sp' = [sp EXCEPT !.calls[u] =
                    [@ EXCEPT !.pc = "read", !.n = @ + 1, !.ok = ok,
                              !.read = doc.status, !.statuses = doc.status]]
    /\ UNCHANGED <<doc, outsideStart>>

\* if statuses[user_id] == "": check_conditions, then mark and write the map
StartProtocolMark(u) ==
    LET c == sp.calls[u]
        marked == [c.statuses EXCEPT ![u] = READY]
    IN
    /\ u \in DOMAIN sp.calls
    /\ c.pc = "read"
    /\ IF c.statuses[u] = ""
       THEN IF c.ok
            THEN /\ sp' = [sp EXCEPT !.calls[u] =
                              [@ EXCEPT !.pc = "marked", !.statuses = marked,
                                        !.wrote = TRUE]]
                 /\ doc' = [doc EXCEPT !.status = MergeStatus(@, marked)]
            ELSE \* check_conditions returns a message: redirect_with_flash
                 /\ sp' = [sp EXCEPT !.calls[u] =
                              [@ EXCEPT !.pc = "flashed", !.flashes = @ + 1]]
                 /\ UNCHANGED doc
       ELSE /\ sp' = [sp EXCEPT !.calls[u].pc = "marked"]
            /\ UNCHANGED doc
    /\ UNCHANGED outsideStart

\* "Not all participants are ready", or update_status_and_start_setup
StartProtocolDecide(u) ==
    LET c == sp.calls[u] IN
    /\ u \in DOMAIN sp.calls
    /\ c.pc = "marked"
    /\ sp' = [sp EXCEPT !.calls[u].pc = "done",
                        !.started = IF SetupStarts(c.statuses, u)
                                    THEN @ \cup {<<u, c.n>>} ELSE @]
    /\ UNCHANGED <<doc, outsideStart>>

\* a study as create_study, the joins and restart_study leave it: the first
\* participant "ready to begin protocol", every other status empty
InitStart ==
    /\ \E list \in {<<P0, P1>>, <<P0, P1, P2>>} :
          /\ InitDocument(list, FALSE)
          /\ sp = [calls |-> [u \in 1..Len(list) |->
                                [pc |-> "idle", n |-> 0, ok |-> FALSE, read |-> <<>>,
                                 statuses |-> <<>>, wrote |-> FALSE,
                                 flashes |-> 0]],
                   started |-> {}]
    /\ InitCloud("absent", {}, {}, FALSE)
    /\ InitRequest
    /\ InitOrchestrators({}, 0)
    /\ waiter = NoWait
    /\ si = NoCall
    /\ rc = NoComparison
    /\ ds = NoDelete
    /\ failBudget = 0

\* the caller is the participant at a role index
NextStart ==
    \E r \in Roles :
        \/ StartProtocolRead(r + 1)
        \/ StartProtocolMark(r + 1)
        \/ StartProtocolDecide(r + 1)

SpecStart == InitStart /\ [][NextStart]_vars

(***************************************************************************)
(* The operation waiters: wait_for_operation (global operations),          *)
(* wait_for_zoneOperation and wait_for_regionOperation.                    *)
(***************************************************************************)
\* how many results the provider hands out for one operation
MaxPolls == 3

\* what <scope>Operations().get(..).execute() may return: the status, and
\* the "error" field when the result has one
NoError == "none"
PollResults ==
    [status : {"PENDING", "RUNNING", "DONE"}, error : {NoError, "QUOTA_EXCEEDED"}]

PollSequences == UNION {[1..n -> PollResults] : n \in 1..MaxPolls}

\* result["status"] == "DONE", with any status but PENDING taken for terminal
IsDoneLoose(result) == result.status # "PENDING"

\* result["status"] == "DONE"
IsDone(result) == result.status = "DONE"

\* "error" in result
HasError(result) == result.error # NoError

\* a waiter that gives up: it raises when the second result is not DONE either
WaitPollBounded ==
    LET result == waiter.polls[waiter.pos + 1] IN
    /\ waiter.state = "waiting"
    /\ waiter.pos < Len(waiter.polls)
    /\ waiter' =
          IF IsDone(result)
          THEN IF HasError(result)
               THEN [waiter EXCEPT !.pos = @ + 1, !.state = "raised",
                                   !.result = result.error]
               ELSE [waiter EXCEPT !.pos = @ + 1, !.state = "returned",
                                   !.result = result]
          ELSE IF waiter.pos + 1 >= 2
               THEN [waiter EXCEPT !.pos = @ + 1, !.state = "raised",
                                   !.result = "timeout"]
               ELSE [waiter EXCEPT !.pos = @ + 1]
    /\ UNCHANGED <<cloudVars, study, failBudget, outsideWaiter>>

\* one turn of `while True`: get the operation, return or raise when it is
\* DONE, else sleep and poll again
WaitPoll ==
    LET result == waiter.polls[waiter.pos + 1] IN
    /\ waiter.state = "waiting"
    /\ waiter.pos < Len(waiter.polls)
    /\ waiter' =
          IF IsDone(result)
          THEN IF HasError(result)
               THEN [waiter EXCEPT !.pos = @ + 1, !.state = "raised",
                                   !.result = result.error]
               ELSE [waiter EXCEPT !.pos = @ + 1, !.state = "returned",
                                   !.result = result]
          ELSE [waiter EXCEPT !.pos = @ + 1]
    /\ UNCHANGED <<cloudVars, study, failBudget, outsideWaiter>>

WaitForOperation ==
    /\ waiter.scope = "global"
    /\ WaitPoll

WaitForZoneOperation ==
    /\ waiter.scope = "zone"
    /\ WaitPoll

WaitForRegionOperation ==
    /\ waiter.scope = "region"
    /\ WaitPoll

\* the step that called the waiter: its next statement runs when the waiter
\* has returned (create_firewall after wait_for_operation in create_network);
\* when the waiter raises, the exception ends the step
CallerContinues ==
    /\ waiter.state \in {"returned", "raised"}
    /\ waiter.caller = "blocked"
    /\ waiter' = [waiter EXCEPT
                     !.caller = IF waiter.state = "returned" THEN "continued" ELSE "raised"]
    /\ UNCHANGED <<cloudVars, study, failBudget, outsideWaiter>>

\* a waiter is called on an operation; the provider's answers are any sequence
InitWaiter ==
    /\ \E scope \in {"global", "zone", "region"} : \E polls \in PollSequences :
          waiter = [scope |-> scope, polls |-> polls, pos |-> 0,
                    state |-> "waiting", result |-> <<>>, caller |-> "blocked"]
    /\ InitDocument(<<P0, P1>>, FALSE)
    /\ InitRequest
    /\ InitOrchestrators({}, 0)
    /\ InitCloud("absent", {}, {}, FALSE)
    /\ failBudget = 0
    /\ si = NoCall
    /\ rc = NoComparison
    /\ ds = NoDelete
    /\ sp = NoStart

NextWaiter ==
    \/ WaitForOperation
    \/ WaitForZoneOperation
    \/ WaitForRegionOperation
    \/ CallerContinues

SpecWaiter == InitWaiter /\ [][NextWaiter]_vars

\* the waiter is a loop of a running thread: it sleeps a second and polls again
SpecWaiterFair == SpecWaiter /\ WF_vars(NextWaiter)

(***************************************************************************)
(* The ranges generated for two role indices: f"10.0.{i}.0/24" in          *)
(* remove_conflicting_subnets, f"10.0.{role}.0/28" in create_subnet, each  *)
(* read by ipaddr.IPNetwork and compared with overlaps.                    *)
(***************************************************************************)
\* ip_cidr_ranges_for_this_network, for the two indices
GenerateExpected ==
    LET a == ExpectedRange(rc.i)
        b == ExpectedRange(rc.j)
    IN
    /\ rc.state = "chosen"
    /\ rc' = [rc EXCEPT !.state = "expected", !.expected = <<a, b>>,
                        !.expectedOverlap = Overlaps(a, b)]
    /\ UNCHANGED <<cloudVars, study, failBudget, outsideRanges>>

\* req_body["ipCidrRange"] of create_subnet, for the two roles
GenerateRequested ==
    LET a == SubnetRange(rc.i)
        b == SubnetRange(rc.j)
    IN
    /\ rc.state = "expected"
    /\ rc' = [rc EXCEPT !.state = "requested", !.requested = <<a, b>>,
                        !.requestedOverlap = Overlaps(a, b)]
    /\ UNCHANGED <<cloudVars, study, failBudget, outsideRanges>>

\* an internal address past the end of the /28 of the role
InternalAddressOutside(role) == Ip(10, 0, role, 16)

\* "networkIP": f"10.0.{role}.10"
InternalAddress(role) == Ip(10, 0, role, 10)

\* "subnetwork": ".../subnetworks/" + constants.SUBNET_NAME + role
InstanceSubnet(role) == SUBNET_NAME \o RoleStr(role)

\* networkInterfaces[0] of the instance_body of create_instance, for the two roles
GenerateInstanceBody ==
    /\ rc.state = "requested"
    /\ rc' = [rc EXCEPT !.state = "instance",
                        !.internal = <<InternalAddress(rc.i), InternalAddress(rc.j)>>,
                        !.attached = <<InstanceSubnet(rc.i), InstanceSubnet(rc.j)>>,
                        !.created = <<SubnetName(rc.i), SubnetName(rc.j)>>]
    /\ UNCHANGED <<cloudVars, study, failBudget, outsideRanges>>

InitRanges ==
    /\ \E i \in 0..MaxOctet : \E j \in 0..MaxOctet :
          rc = [state |-> "chosen", i |-> i, j |-> j,
                expected |-> <<>>, expectedOverlap |-> FALSE,
                requested |-> <<>>, requestedOverlap |-> FALSE,
                internal |-> <<>>, attached |-> <<>>, created |-> <<>>]
    /\ InitDocument(<<P0, P1>>, FALSE)
    /\ InitRequest
    /\ InitOrchestrators({}, 0)
    /\ InitCloud("absent", {}, {}, FALSE)
    /\ waiter = NoWait
    /\ si = NoCall
    /\ ds = NoDelete
    /\ sp = NoStart
    /\ failBudget = 0

NextRanges ==
    \/ GenerateExpected
    \/ GenerateRequested
    \/ GenerateInstanceBody

SpecRanges == InitRanges /\ [][NextRanges]_vars

(***************************************************************************)
(* setup_instance(zone, name, role, ..): delete the instance of that name  *)
(* if list_instances(constants.ZONE) has it, create it, read its address.  *)
(***************************************************************************)
\* the zone operation of a call has reached DONE: wait_for_zoneOperation returned
Waited(op, arg) == Call("waited", <<op, arg>>, TRUE)

\* natIP of the instance, as instances().get reports it
ExternalAddress(zone, name) == <<"nat-", zone>> \o name

SetupInstanceRaises(calls) ==
    si' = [si EXCEPT !.pc = "raised", !.log = @ \o calls]

\* existing_instances = self.list_instances(constants.ZONE); name in it?
SetupInstanceList ==
    LET existing == {i.name : i \in ListInstances(si.project, <<>>)} IN
    /\ si.pc = "list"
    /\ \/ /\ si' = [si EXCEPT !.pc = IF si.name \in existing THEN "delete" ELSE "create"]
          /\ UNCHANGED failBudget
       \/ /\ TransientFailure
          /\ SetupInstanceRaises(<<>>)
    /\ UNCHANGED <<cloudVars, study, outsideInstance>>

\* self.delete_instance(name, zone): instances().delete, wait_for_zoneOperation
SetupInstanceDelete ==
    LET there == {i \in instances[si.project] : i.zone = si.zone /\ i.name = si.name}
        call(ok) == Call("instances.delete", si.name, ok)
    IN
    /\ si.pc = "delete"
    /\ \/ /\ there # {}
          /\ instances' = [instances EXCEPT ![si.project] = @ \ there]
          /\ si' = [si EXCEPT !.pc = "create",
                              !.log = @ \o <<call(TRUE), Waited("instances.delete", si.name)>>]
          /\ UNCHANGED failBudget
       \/ \* the zone has no such instance: the cloud rejects the call
          /\ there = {}
          /\ SetupInstanceRaises(<<call(FALSE)>>)
          /\ UNCHANGED <<instances, failBudget>>
       \/ /\ TransientFailure
          /\ SetupInstanceRaises(<<call(FALSE)>>)
          /\ UNCHANGED instances
    /\ UNCHANGED <<networks, firewalls, peerings, subnets, study, outsideInstance>>

\* self.create_instance(zone, name, role, ..): instances().insert, wait_for_zoneOperation
SetupInstanceCreate ==
    LET there == {i \in instances[si.project] : i.zone = si.zone /\ i.name = si.name}
        call(ok) == Call("instances.insert", si.name, ok)
    IN
    /\ si.pc = "create"
    /\ \/ /\ there = {}
          /\ instances' = [instances EXCEPT
                ![si.project] = @ \cup {InstanceIn(si.zone, si.name, SubnetName(si.role))}]
          /\ si' = [si EXCEPT !.pc = "address",
                              !.log = @ \o <<call(TRUE), Waited("instances.insert", si.name)>>]
          /\ UNCHANGED failBudget
       \/ \* the zone already has an instance of that name: the cloud rejects the call
          /\ there # {}
          /\ SetupInstanceRaises(<<call(FALSE)>>)
          /\ UNCHANGED <<instances, failBudget>>
       \/ /\ TransientFailure
          /\ SetupInstanceRaises(<<call(FALSE)>>)
          /\ UNCHANGED instances
    /\ UNCHANGED <<networks, firewalls, peerings, subnets, study, outsideInstance>>

\* return self.get_vm_external_ip_address(zone, name)
SetupInstanceAddress ==
    /\ si.pc = "address"
    /\ \/ /\ si' = [si EXCEPT !.pc = "returned",
                              !.log = Append(@, Call("instances.get", si.name, TRUE)),
                              !.address = ExternalAddress(si.zone, si.name)]
          /\ UNCHANGED failBudget
       \/ /\ TransientFailure
          /\ SetupInstanceRaises(<<Call("instances.get", si.name, FALSE)>>)
    /\ UNCHANGED <<cloudVars, study, outsideInstance>>

\* the project holds any of: the instance in constants.ZONE, an instance of
\* that name in the other zone, another study's instance; setup_instance is
\* called for role 1 with either zone
InitInstance ==
    /\ \E zone \in {ZONE, OTHER_ZONE} :
       \E prior \in SUBSET { InstanceIn(ZONE, InstanceName(STUDY_TITLE, 1), SubnetName(1)),
                             InstanceIn(OTHER_ZONE, InstanceName(STUDY_TITLE, 1), SubnetName(1)),
                             InstanceIn(ZONE, InstanceName(OTHER_STUDY, 1), SubnetName(1)) } :
          /\ si = [pc |-> "list", project |-> P1, zone |-> zone,
                   name |-> InstanceName(STUDY_TITLE, 1), role |-> 1,
                   existed |-> \E i \in prior :
                                  i.zone = zone /\ i.name = InstanceName(STUDY_TITLE, 1),
                   log |-> <<>>, address |-> <<>>]
          /\ instances = [p \in Projects |-> IF p = P1 THEN prior ELSE {}]
    /\ networks = [p \in Projects |-> {OTHER_NETWORK, NETWORK_NAME}]
    /\ firewalls = [p \in Projects |-> {FirewallName(NETWORK_NAME)}]
    /\ peerings = [p \in Projects |-> {}]
    /\ subnets = [p \in Projects |->
                     IF p = P1 THEN {Subnet(SubnetName(1), NETWORK_NAME, SubnetRange(1))}
                     ELSE {}]
    /\ InitDocument(<<P0, P1>>, FALSE)
    /\ InitRequest
    /\ InitOrchestrators({}, 0)
    /\ waiter = NoWait
    /\ rc = NoComparison
    /\ ds = NoDelete
    /\ sp = NoStart
    /\ failBudget = MaxFail

NextInstance ==
    \/ SetupInstanceList
    \/ SetupInstanceDelete
    \/ SetupInstanceCreate
    \/ SetupInstanceAddress

SpecInstance == InitInstance /\ [][NextInstance]_vars

(***************************************************************************)
(* delete_subnet(subnet), statement by statement: the instances listed for *)
(* the subnet are deleted, the subnet is deleted, and the listing of the   *)
(* subnets is polled until it is gone.  The method is under                *)
(* @retry(stop_after_attempt(5)).                                          *)
(***************************************************************************)
\* the start of an attempt, as the log of the call keeps it
AttemptMark == Call("attempt", <<>>, TRUE)

\* the attempt raises: tenacity starts the method again, or gives up
DsRaises(calls) ==
    LET again == ds.attempt < DeleteSubnetAttempts IN
    ds' = [ds EXCEPT !.log = @ \o calls,
                     !.pc = IF again THEN "list" ELSE "raised",
                     !.attempt = IF again THEN @ + 1 ELSE @,
                     !.listed = <<>>,
                     !.i = 0,
                     !.listings = 0]

\* for instance in self.list_instances(constants.ZONE, subnetwork=subnet["selfLink"])
DsListInstances ==
    LET p == ds.project
        names == {i.name : i \in ListInstances(p, SubnetUrl(p, ds.subnet.name))}
    IN
    /\ ds.pc = "list"
    /\ \/ /\ ds' = [ds EXCEPT !.log = Append(@, AttemptMark),
                              !.listed = SetToSeq(names),
                              !.pc = IF names = {} THEN "delete" ELSE "evacuate"]
          /\ UNCHANGED failBudget
       \/ /\ TransientFailure
          /\ DsRaises(<<AttemptMark>>)
    /\ UNCHANGED <<cloudVars, study, outsideDelete>>

\* self.delete_instance(instance): instances().delete in constants.ZONE, then
\* wait_for_zoneOperation
DsDeleteInstance ==
    LET p == ds.project
        name == Head(ds.listed)
        call(ok) == Call("instances.delete", name, ok)
    IN
    /\ ds.pc = "evacuate"
    /\ \/ /\ instances' = [instances EXCEPT
                              ![p] = {i \in @ : ~(i.zone = ZONE /\ i.name = name)}]
          /\ ds' = [ds EXCEPT !.log = @ \o <<call(TRUE), Waited("instances.delete", name)>>,
                              !.listed = Tail(@),
                              !.pc = IF Tail(ds.listed) = <<>> THEN "delete" ELSE "evacuate"]
          /\ UNCHANGED failBudget
       \/ /\ TransientFailure
          /\ DsRaises(<<call(FALSE)>>)
          /\ UNCHANGED instances
    /\ UNCHANGED <<networks, firewalls, peerings, subnets, study, outsideDelete>>

\* self.compute.subnetworks().delete(..).execute(): the operation is started
\* and not waited for; the provider refuses a subnet that is not there, and
\* refuses, or lets the operation fail, for a subnet that instances still use
DsDeleteCall ==
    LET p == ds.project
        there == ds.subnet \in subnets[p]
        inUse == \E i \in instances[p] : i.subnet = ds.subnet.name
        call(ok) == Call("subnetworks.delete", ds.subnet.name, ok)
    IN
    /\ ds.pc = "delete"
    /\ \/ /\ there
          /\ ds' = [ds EXCEPT !.log = Append(@, call(TRUE)),
                              !.pc = "confirm",
                              !.deleting = ~inUse]
          /\ UNCHANGED failBudget
       \/ /\ ~there \/ inUse
          /\ DsRaises(<<call(FALSE)>>)
          /\ UNCHANGED failBudget
       \/ /\ TransientFailure
          /\ DsRaises(<<call(FALSE)>>)
    /\ UNCHANGED <<cloudVars, study, outsideDelete>>

\* the provider carries the deletion out, at any moment after the call
SubnetDeleted ==
    /\ ds.pc \in {"list", "evacuate", "delete", "confirm"}
    /\ ds.deleting
    /\ subnets' = [subnets EXCEPT ![ds.project] = @ \ {ds.subnet}]
    /\ ds' = [ds EXCEPT !.deleting = FALSE]
    /\ UNCHANGED <<networks, firewalls, peerings, instances, study, failBudget,
                   outsideDelete>>

\* one turn of `for i in range(30)`: quit(1) when i == 25, else list the
\* subnets and leave the loop when the subnet is not among them, else sleep
DsConfirm ==
    LET listedStill == ds.subnet.name \in {x.name : x \in subnets[ds.project]}
        lastTurn == ds.i + 1 >= ConfirmRange
    IN
    /\ ds.pc = "confirm"
    /\ ds.i < ConfirmRange
    /\ \/ /\ ds.i = QuitIndex
          /\ ds' = [ds EXCEPT !.pc = "exited"]
          /\ UNCHANGED failBudget
       \/ /\ ds.i # QuitIndex
          /\ ds' = [ds EXCEPT !.listings = @ + 1,
                              !.i = @ + 1,
                              !.pc = IF ~listedStill \/ lastTurn THEN "returned" ELSE @]
          /\ UNCHANGED failBudget
       \/ /\ ds.i # QuitIndex
          /\ TransientFailure
          /\ DsRaises(<<>>)
    /\ UNCHANGED <<cloudVars, study, outsideDelete>>

\* delete_subnet is called on the subnet of role 1 of a project that also has
\* the subnet of role 10; instances are attached to either, in constants.ZONE
\* or in another zone of the region
DeletedSubnet == Subnet(SubnetName(1), NETWORK_NAME, SubnetRange(1))

InitDeleteSubnet ==
    /\ \E vms \in SUBSET { Instance(<<"vm-a">>, SubnetName(1)),
                           Instance(<<"vm-b">>, SubnetName(1)),
                           InstanceIn(OTHER_ZONE, <<"vm-c">>, SubnetName(1)),
                           Instance(<<"vm-d">>, SubnetName(10)) } :
          /\ instances = [p \in Projects |-> IF p = P1 THEN vms ELSE {}]
          /\ ds = [pc |-> "list", project |-> P1, subnet |-> DeletedSubnet,
                   attempt |-> 1, listed |-> <<>>, log |-> <<>>, i |-> 0,
                   listings |-> 0, deleting |-> FALSE, before |-> vms]
    /\ networks = [p \in Projects |-> {OTHER_NETWORK, NETWORK_NAME}]
    /\ firewalls = [p \in Projects |-> {FirewallName(NETWORK_NAME)}]
    /\ peerings = [p \in Projects |-> {}]
    /\ subnets = [p \in Projects |->
                     IF p = P1
                     THEN {DeletedSubnet,
                           Subnet(SubnetName(10), NETWORK_NAME, SubnetRange(10))}
                     ELSE {}]
    /\ InitDocument(<<P0, P1>>, FALSE)
    /\ InitRequest
    /\ InitOrchestrators({}, 0)
    /\ waiter = NoWait
    /\ si = NoCall
    /\ rc = NoComparison
    /\ sp = NoStart
    /\ failBudget = MaxFail

NextDeleteSubnet ==
    \/ DsListInstances
    \/ DsDeleteInstance
    \/ DsDeleteCall
    \/ SubnetDeleted
    \/ DsConfirm

SpecDeleteSubnet == InitDeleteSubnet /\ [][NextDeleteSubnet]_vars

(***************************************************************************)
(* Reading a run's log.                                                    *)
(***************************************************************************)
\* positions of the log of run r that hold a call of one of the operations
CallsAt(r, ops) == {i \in 1..Len(log[r]) : log[r][i].op \in ops}

\* the stages run r entered, in order
EnteredStages(r) ==
    LET at == SelectSeq(log[r], LAMBDA e : e.op = "enter")
    IN [i \in 1..Len(at) |-> at[i].arg[1]]

\* stage `stage` of run r had returned before position i of its log
ReturnedBefore(r, stage, i) == \E j \in 1..(i - 1) : log[r][j] = Return(stage)

CreateOps ==
    {"networks.insert", "firewalls.insert", "subnetworks.insert", "networks.addPeering"}
DeleteOps == {"networks.removePeering", "subnetworks.delete", "instances.delete"}

\* the projects the peering names of a set are peerings to
PeeredProjects(names) == {q \in Projects : PeeringName(q) \in names}

(***************************************************************************)
(* C1: in every run of setup_networking the steps are entered in the order *)
(* ensure network, remove conflicting peerings, remove conflicting subnets,*)
(* create the role's subnet, create peerings; and no subnet insert or      *)
(* addPeering call is issued before both prune steps have returned.        *)
(***************************************************************************)
C1_Order ==
    <<"create_network", "remove_conflicting_peerings", "remove_conflicting_subnets",
      "create_subnet", "create_peerings">>

C1_PruneBeforeCreate ==
    \A r \in Roles :
        /\ Len(EnteredStages(r)) <= Len(C1_Order)
        /\ EnteredStages(r) = SubSeq(C1_Order, 1, Len(EnteredStages(r)))
        /\ \A i \in CallsAt(r, {"subnetworks.insert", "networks.addPeering"}) :
              /\ ReturnedBefore(r, "remove_conflicting_peerings", i)
              /\ ReturnedBefore(r, "remove_conflicting_subnets", i)

\* a run that pruned a peering and a subnet, then created a subnet and a peering
C1_Witness ==
    \E r \in Roles :
        /\ pc[r] = "done"
        /\ CallsAt(r, {"networks.removePeering"}) # {}
        /\ CallsAt(r, {"subnetworks.delete"}) # {}
        /\ CallsAt(r, {"subnetworks.insert"}) # {}
        /\ CallsAt(r, {"networks.addPeering"}) # {}

(***************************************************************************)
(* C2: idempotence of setup.  When setup_networking is run twice in a row  *)
(* for the same project and role with an unchanged participant list, and   *)
(* nothing else changes the project, the second run issues no create call  *)
(* (network, firewall, subnet insert, addPeering) and no delete call.      *)
(***************************************************************************)
C2_SecondRunIssuesNothing ==
    \A r \in Roles :
        (prevDone[r] /\ failBudget = MaxFail)
            => CallsAt(r, CreateOps \cup DeleteOps) = {}

(***************************************************************************)
(* C3: remove_conflicting_subnets preserves the subnet of a role that is   *)
(* still a participant: a study-network subnet with range 10.0.<r>.0/28 is *)
(* not deleted, nor the instances attached to it, when 10.0.<r>.0/24 is in *)
(* the expected range set of the current project.                          *)
(***************************************************************************)
C3_ParticipantSubnetPreserved ==
    \A r \in Roles :
        (pc[r] # "idle" /\ Len(gcp[r]) >= ExpectedIndexCount) =>
            \A s \in startSubnets[r] : \A i \in 0..(ExpectedIndexCount - 1) :
                ( /\ s.network = NETWORK_NAME
                  /\ s.range = Cidr(Ip(10, 0, i, 0), 28)
                  /\ Cidr(Ip(10, 0, i, 0), 24) \in ExpectedRanges(gcp[r], ProjectOf(r)) )
                => /\ s \in subnets[ProjectOf(r)]
                   /\ \A k \in CallsAt(r, {"instances.delete"}) :
                         log[r][k].arg # VmOn(s).name

(***************************************************************************)
(* C4: peering reconciliation in one project.  With E the projects peered  *)
(* when the run started and G the current project list, the two peering    *)
(* steps remove exactly the peerings to E \ G, add exactly the peerings to *)
(* G \ E other than the current project, and issue no call for E \cap G.   *)
(***************************************************************************)
C4_PeeringReconciliation ==
    \A r \in Roles :
        pc[r] = "done" =>
            LET p == ProjectOf(r)
                E == PeeredProjects(startPeer[r])
                G == SeqToSet(gcp[r])
            IN
            /\ PeeredProjects(peerings[p]) = (E \cap G) \cup (G \ {p})
            /\ {log[r][k].arg : k \in CallsAt(r, {"networks.removePeering"})}
                    = {PeeringName(q) : q \in E \ G}
            /\ {log[r][k].arg : k \in CallsAt(r, {"networks.addPeering"})}
                    = (G \ E) \ {p}

(***************************************************************************)
(* C7: subnet steady state.  After setup_networking(study, role) has       *)
(* completed in a project, from any prior set of subnets, exactly one      *)
(* subnet of the study network lies inside 10.0.<role>.0/24, it is the one *)
(* named prefix+role with range 10.0.<role>.0/28, and no two subnets of    *)
(* the study network in the project overlap.                               *)
(***************************************************************************)
C7_SubnetSteadyState ==
    \A r \in Roles :
        pc[r] = "done" =>
            LET mine == {s \in subnets[ProjectOf(r)] : s.network = NETWORK_NAME}
            IN
            /\ {s \in mine : Inside(s.range, Cidr(Ip(10, 0, r, 0), 24))}
                   = {Subnet(SUBNET_NAME \o RoleStr(r), NETWORK_NAME,
                             Cidr(Ip(10, 0, r, 0), 28))}
            /\ \A s1, s2 \in mine : s1 # s2 => ~Overlaps(s1.range, s2.range)

(***************************************************************************)
(* C5: eventual bidirectional peering.  Once setup_networking has run to   *)
(* completion for the participants' projects of a study, a peering from    *)
(* project P to project Q exists iff P # Q and both are projects of the    *)
(* study; while the other side has not run (and had nothing before), only  *)
(* the one-directional peering exists.                                     *)
(***************************************************************************)
C5_BidirectionalPeering ==
    /\ \A a \in RolesOf(study) :
          pc[a] = "done" =>
              PeeredProjects(peerings[ProjectOf(a)])
                  = SeqToSet(GcpProjects(study)) \ {ProjectOf(a)}
    /\ \A a, b \in RolesOf(study) :
          ( /\ pc[a] = "done"
            /\ pc[b] = "idle"
            /\ ProjectOf(a) # ProjectOf(b)
            /\ NETWORK_NAME \notin networks[ProjectOf(b)] )
          => /\ PeeringName(ProjectOf(b)) \in peerings[ProjectOf(a)]
             /\ PeeringName(ProjectOf(a)) \notin peerings[ProjectOf(b)]

(***************************************************************************)
(* C6: the two-party scenario.  Participants [Broad, userA], Broad at role *)
(* 0 in project P0, userA at role 1 in project P1, P1 initially empty:     *)
(* setup for P1 issues exactly one network insert and its firewall insert, *)
(* no peering removal, no subnet deletion, one subnet insert (10.0.1.0/28) *)
(* and one addPeering P1 -> P0; setup for P0 adds the peering P0 -> P1.    *)
(***************************************************************************)
C6_TwoPartyScenario ==
    (study = <<P0, P1>> /\ failBudget = MaxFail) =>
        /\ ( /\ pc[1] = "done"
             /\ NETWORK_NAME \notin startNets[1]
             /\ startSubnets[1] = {} )
           => /\ Cardinality(CallsAt(1, {"networks.insert"})) = 1
              /\ Cardinality(CallsAt(1, {"firewalls.insert"})) = 1
              /\ CallsAt(1, {"networks.removePeering", "subnetworks.delete"}) = {}
              /\ Cardinality(CallsAt(1, {"subnetworks.insert"})) = 1
              /\ Subnet(SUBNET_NAME \o <<"1">>, NETWORK_NAME, Cidr(Ip(10, 0, 1, 0), 28))
                     \in subnets[P1]
              /\ Cardinality(CallsAt(1, {"networks.addPeering"})) = 1
              /\ \A k \in CallsAt(1, {"networks.addPeering"}) : log[1][k].arg = P0
        /\ pc[0] = "done" => PeeringName(P1) \in peerings[P0]

(***************************************************************************)
(* Reading a teardown request.                                             *)
(***************************************************************************)
\* every thread the request started has ended, normally or with an exception
ThreadsEnded == \A k \in 1..Len(threads) : threads[k].state \in {"finished", "raised"}

\* the participants' projects of the document the handler read
ParticipantProjects == SeqToSet(handler.dict.participants) \ {NoProject}

\* the instances of the study still present in a project
StudyInstancesIn(p) == {i \in instances[p] : i.name \in StudyInstanceNames(STUDY_TITLE)}

(***************************************************************************)
(* C8: teardown completeness.  After the restart or delete handler has     *)
(* finished (and the threads it started have ended), no instance whose     *)
(* name matches the study's naming convention remains in any participant   *)
(* project, also when a cloud call failed transiently.                     *)
(***************************************************************************)
C8_TeardownCompleteness ==
    (handler.pc = "done" /\ ThreadsEnded) =>
        \A p \in ParticipantProjects : StudyInstancesIn(p) = {}

(***************************************************************************)
(* C9: teardown is joined before it is declared complete.  The restart     *)
(* handler has reset the statuses, or the delete handler has removed the   *)
(* study document, only when every deletion task started for the study    *)
(* has finished.                                                           *)
(* As the code has it: this holds of both restart handlers and of the      *)
(* delete handler of web/study.py; delete_study of studies.py removes the  *)
(* document without waiting for its background thread.                     *)
(***************************************************************************)
C9_DeclaredComplete == handler.pc = "done"

C9_DeletionsFinished ==
    /\ ThreadsEnded
    /\ handler.kind # "studies.delete_study"
          => handler.idx > Len(handler.dict.participants)

C10_FailureIsolation ==
    (handler.pc \in {"done", "raised"} /\ ThreadsEnded) =>
        \A p \in ParticipantProjects \ failedProjects : StudyInstancesIn(p) = {}

(***************************************************************************)
(* C11: the operation-wait contract, for the global, zone and region       *)
(* waiters.  For any sequence of polled results the waiter ends at the     *)
(* first poll whose status is DONE and never earlier; it returns that      *)
(* poll's result when the result has no error field, and raises an error   *)
(* carrying the provider's error detail when it has one.                   *)
(***************************************************************************)
C11_FirstDone(polls) ==
    IF \E i \in 1..Len(polls) : polls[i].status = "DONE"
    THEN CHOOSE i \in 1..Len(polls) :
            /\ polls[i].status = "DONE"
            /\ \A j \in 1..(i - 1) : polls[j].status # "DONE"
    ELSE 0

C11_WaitContract ==
    LET first == C11_FirstDone(waiter.polls) IN
    waiter.scope \in {"global", "zone", "region"} =>
        /\ waiter.state = "waiting" =>
              \A j \in 1..waiter.pos : waiter.polls[j].status # "DONE"
        /\ waiter.state = "returned" =>
              /\ waiter.pos = first
              /\ waiter.polls[first].error = NoError
              /\ waiter.result = waiter.polls[first]
        /\ waiter.state = "raised" =>
              /\ waiter.pos = first
              /\ waiter.polls[first].error # NoError
              /\ waiter.result = waiter.polls[first].error
        /\ (waiter.pos = Len(waiter.polls) /\ first # 0) => waiter.state # "waiting"

\* [RUNNING, RUNNING, DONE]: the waiter has returned after the third poll
C11_Witness ==
    /\ Len(waiter.polls) = 3
    /\ \A i \in 1..3 : waiter.polls[i] =
          [status |-> IF i = 3 THEN "DONE" ELSE "RUNNING", error |-> NoError]
    /\ waiter.state = "returned"
    /\ waiter.pos = 3

(***************************************************************************)
(* C12: every mutating cloud call is waited on.  Within one run of         *)
(* setup_networking, whenever the run issues its next cloud call no        *)
(* operation it started is still running, and no step leaves more than one *)
(* of its operations in flight.                                            *)
(***************************************************************************)
\* run r takes a step of setup_networking (every such step calls the cloud)
C12_StepOf(r) ==
    /\ pc[r] \in SeqToSet(SetupOrder) \cup {"delete_subnet"}
    /\ <<pc[r], log[r], attempt[r], todo[r]>> # <<pc'[r], log'[r], attempt'[r], todo'[r]>>

C12_EveryCallWaited ==
    [][\A r \in Roles : C12_StepOf(r) => (inflight[r] = 0 /\ inflight'[r] <= 1)]_vars

(***************************************************************************)
(* C13: postcondition of create_network.  Whenever create_network has      *)
(* returned without error, the study network and its ingress firewall rule *)
(* both exist in the project, whatever the project held before; and when   *)
(* the network already existed the call issued no mutating call.           *)
(***************************************************************************)
C13_NetworkAndFirewall ==
    \A r \in Roles :
        (\E i \in 1..Len(log[r]) : log[r][i] = Return("create_network")) =>
            /\ NETWORK_NAME \in networks[ProjectOf(r)]
            /\ FirewallName(NETWORK_NAME) \in firewalls[ProjectOf(r)]
            /\ NETWORK_NAME \in startNets[r] =>
                  CallsAt(r, {"networks.insert", "firewalls.insert"}) = {}

(***************************************************************************)
(* C14: the conflict detection example.  With a study-network subnet of    *)
(* range 10.0.5.0/24 in the current project and the expected range set     *)
(* {10.0.0.0/24, 10.0.1.0/24}, remove_conflicting_subnets flags the subnet *)
(* for deletion (calls delete_subnet on it).                               *)
(* As the code has it: the subnet is not flagged, since 10.0.5.0/24        *)
(* overlaps neither expected range; it is still there, and no delete call  *)
(* was issued for it, at every point of the run.                           *)
(***************************************************************************)
\* run r works with the expected set of the example, and the project held s
C14_Example(r, s) ==
    /\ pc[r] # "idle"
    /\ Len(gcp[r]) >= ExpectedIndexCount
    /\ ExpectedRanges(gcp[r], ProjectOf(r))
           = {Cidr(Ip(10, 0, 0, 0), 24), Cidr(Ip(10, 0, 1, 0), 24)}
    /\ s \in startSubnets[r]
    /\ s.network = NETWORK_NAME
    /\ s.range = Cidr(Ip(10, 0, 5, 0), 24)

C14_Decided(r) ==
    \E i \in 1..Len(log[r]) : log[r][i] = Return("remove_conflicting_subnets")

C15_ExpectedRangeSet ==
    \A r \in Roles :
        (pc[r] # "idle" /\ Len(gcp[r]) >= ExpectedIndexCount) =>
            ExpectedRanges(gcp[r], ProjectOf(r))
                = {ExpectedRange(i) :
                      i \in {j \in RolesOf(study) : ProjectOf(j) = ProjectOf(r)}}

(***************************************************************************)
(* C16: setup_instance replaces rather than updates.  If an instance of    *)
(* the given name exists in the zone passed to setup_instance, its         *)
(* deletion is issued and its operation completes before the insert is     *)
(* issued; the external address is read and returned only after the        *)
(* insert operation has completed; if no such instance exists, no delete   *)
(* is issued.                                                              *)
(***************************************************************************)
C16_At(e) == {i \in 1..Len(si.log) : si.log[i] = e}

C16_Before(e1, e2) ==
    \A j \in C16_At(e2) : \E i \in C16_At(e1) : i < j

C16_ReplaceNotUpdate ==
    si.pc # "idle" =>
        LET delete == Call("instances.delete", si.name, TRUE)
            insert(ok) == Call("instances.insert", si.name, ok)
            get(ok) == Call("instances.get", si.name, ok)
        IN
        /\ si.existed =>
              \A ok \in BOOLEAN :
                  /\ C16_Before(delete, insert(ok))
                  /\ C16_Before(Waited("instances.delete", si.name), insert(ok))
        /\ \A ok \in BOOLEAN : C16_Before(Waited("instances.insert", si.name), get(ok))
        /\ si.pc = "returned" => si.address = ExternalAddress(si.zone, si.name)
        /\ ~si.existed =>
              \A i \in 1..Len(si.log) : si.log[i].op # "instances.delete"

(***************************************************************************)
(* C17: restart resets the study record.  After restart_study, for every   *)
(* participant the recorded public key and IP address are empty and the    *)
(* status is back to its initial value ("ready to begin protocol" for the  *)
(* coordinating party, the empty string for every other participant),      *)
(* whatever the statuses were before.                                      *)
(***************************************************************************)
C17_RestartResetsRecord ==
    (/\ handler.kind \in {"studies.restart_study", "web.restart_study"}
     /\ handler.pc = "done")
    => /\ doc.exists
       /\ \A i \in 1..Len(study) :
             /\ doc.publicKey[i] = ""
             /\ doc.ipAddress[i] = ""
             /\ doc.status[i] = IF i = 1 THEN "ready to begin protocol" ELSE ""

(***************************************************************************)
(* C18: restart leaves infrastructure in place.  restart_study issues no   *)
(* delete call for any network, subnet or peering in any participant       *)
(* project; the set of networks, subnets and peerings is unchanged by a    *)
(* restart.                                                                *)
(***************************************************************************)
C18_InfrastructureDeletes ==
    {"networks.delete", "subnetworks.delete", "networks.removePeering"}

C18_Restarting(h) == h.kind \in {"studies.restart_study", "web.restart_study"}

C18_RestartKeepsInfrastructure ==
    [][C18_Restarting(handler') =>
          /\ networks' = networks
          /\ subnets' = subnets
          /\ peerings' = peerings
          /\ \A k \in 1..Len(teardownLog') :
                teardownLog'[k].op \notin C18_InfrastructureDeletes]_vars

\* a restart has run to its end and has deleted an instance; the subnets and
\* the peerings of the participants are there
C18_Witness ==
    /\ C18_Restarting(handler)
    /\ handler.pc = "done"
    /\ \E k \in 1..Len(teardownLog) :
          teardownLog[k].op = "instances.delete" /\ teardownLog[k].ok
    /\ \A p \in SeqToSet(study) \ {NoProject} : subnets[p] # {} /\ peerings[p] # {}

(***************************************************************************)
(* C19: delete removes the study's persisted state.  After delete_study    *)
(* has run, no non-empty authentication key of any of the study's          *)
(* participants remains in the auth-key store, the study document no       *)
(* longer exists in the studies collection, and a copy of it exists in     *)
(* the deleted-studies collection; the copy is written before the          *)
(* document is deleted.                                                    *)
(***************************************************************************)
C19_Deleting == handler.kind \in {"studies.delete_study", "web.delete_study"}

C19_CopyExists ==
    \E c \in deletedStudies :
        /\ c.participants = study
        /\ c.doc = [doc EXCEPT !.exists = TRUE]

C19_DeleteRemovesState ==
    /\ (C19_Deleting /\ handler.pc = "done") =>
          /\ \A i \in 1..Len(study) :
                doc.authKey[i] # <<>> => doc.authKey[i] \notin authKeys
          /\ ~doc.exists
          /\ C19_CopyExists
    /\ ~doc.exists => C19_CopyExists

\* a delete has run to its end; the key of another study is still in the store
C19_Witness ==
    /\ C19_Deleting
    /\ handler.pc = "done"
    /\ Len(study) > 2
    /\ <<"key-of-another-study">> \in authKeys

(***************************************************************************)
(* C20: error propagation in setup_networking.  If any step (ensure        *)
(* network, either prune step, subnet creation, peering creation) fails,   *)
(* for example because a waited operation ends with an error, the error    *)
(* reaches the caller of setup_networking and none of the later steps of   *)
(* that run is executed.                                                   *)
(***************************************************************************)
\* the step that run r is in at position i of its log
C20_StepAt(r, i) ==
    LET entries == {j \in 1..i : log[r][j].op = "enter"}
        last == CHOOSE j \in entries : \A k \in entries : k <= j
    IN log[r][last].arg[1]

C20_ErrorPropagates ==
    \A r \in Roles :
        /\ \* the error of a step ends the log of the run, and the run
           \A i \in 1..Len(log[r]) :
               log[r][i].op = "raise" =>
                   /\ i = Len(log[r])
                   /\ pc[r] = "failed"
                   /\ log[r][i] = Raise(C20_StepAt(r, i))
        /\ \* a step is entered first, or right after the step before it returned
           \A i \in 2..Len(log[r]) :
               log[r][i].op = "enter" =>
                   /\ log[r][i - 1] = Return(C20_StepAt(r, i - 1))
                   /\ log[r][i] = Enter(StageAfter(C20_StepAt(r, i - 1)))
        /\ \* a failed call of create_network, which is not retried, is the error
           \A i \in 1..Len(log[r]) :
               (/\ log[r][i].op \notin {"enter", "return", "raise"}
                /\ ~log[r][i].ok
                /\ C20_StepAt(r, i) = "create_network")
               => /\ i < Len(log[r])
                  /\ log[r][i + 1] = Raise("create_network")
        /\ \* a run that failed has the error as the last thing it did
           pc[r] = "failed" =>
               /\ log[r] # <<>>
               /\ log[r][Len(log[r])].op = "raise"
        /\ \* a run that was ended by quit(1) went no further than delete_subnet
           pc[r] = "exited" =>
               C20_StepAt(r, Len(log[r])) = "remove_conflicting_subnets"

\* a run has failed in a step after create_network, at a call that failed
C20_Witness ==
    \E r \in Roles :
        /\ pc[r] = "failed"
        /\ \E i \in 1..Len(log[r]) : log[r][i] = Return("create_network")
        /\ \E i \in 1..Len(log[r]) :
              /\ log[r][i].op \notin {"enter", "return", "raise"}
              /\ ~log[r][i].ok
        /\ StageAfter(C20_StepAt(r, Len(log[r]))) # "done"

(***************************************************************************)
(* C21: bounded retries.  Per call, remove_conflicting_peerings,           *)
(* create_subnet and create_peerings are each attempted at most 3 times    *)
(* and delete_subnet at most 5 times; a call stops after the first attempt *)
(* that succeeds, and after the last failed attempt it fails to its caller *)
(* instead of retrying further.                                            *)
(***************************************************************************)
C21_Retried ==
    {"remove_conflicting_peerings", "delete_subnet", "create_subnet", "create_peerings"}

C21_Limit(at) == IF at = "delete_subnet" THEN 5 ELSE 3

\* the step of run r is one attempt of a retried method
C21_AttemptOf(r) ==
    /\ pc[r] \in C21_Retried
    /\ <<pc[r], log[r], attempt[r], todo[r]>> # <<pc'[r], log'[r], attempt'[r], todo'[r]>>

\* the attempt raised: the method is tried again or the run ends with the error
C21_Raised(r) == (pc'[r] = pc[r] /\ attempt'[r] = attempt[r] + 1) \/ pc'[r] = "failed"

C21_BoundedRetries ==
    [][\A r \in Roles :
          /\ pc'[r] \in C21_Retried => attempt'[r] \in 1..C21_Limit(pc'[r])
          /\ C21_AttemptOf(r) =>
                /\ \* an attempt that succeeds is the last of its call
                   ~C21_Raised(r) => attempt'[r] <= 1 \/ pc'[r] = "exited"
                /\ \* an attempt that raises is retried iff it was not the last
                   C21_Raised(r) =>
                      (pc'[r] = "failed" <=> attempt[r] = C21_Limit(pc[r]))]_vars

\* a call of delete_subnet is in its fifth attempt, or a call of a method
\* retried three times has failed to its caller after three failed calls
C21_Witness ==
    \E r \in Roles :
        \/ pc[r] = "delete_subnet" /\ attempt[r] = 5
        \/ /\ pc[r] = "failed"
           /\ log[r][Len(log[r])] = Raise("create_peerings")
           /\ Cardinality({i \in 1..Len(log[r]) :
                  log[r][i].op = "networks.addPeering" /\ ~log[r][i].ok}) >= 3

(***************************************************************************)
(* C22: operation polling has no attempt limit.  While the polled status   *)
(* is not DONE the waiter keeps polling and neither returns nor fails; if  *)
(* the operation eventually reaches DONE the waiter eventually terminates, *)
(* and if it never does the waiter, and the orchestration step that called *)
(* it, never terminates.                                                   *)
(***************************************************************************)
C22_NeverDone == \A i \in 1..Len(waiter.polls) : waiter.polls[i].status # "DONE"

C22_Terminated == waiter.state \in {"returned", "raised"}

C22_PollingUnbounded ==
    /\ \* the waiter ends at a DONE result only
       [](C22_Terminated => waiter.polls[waiter.pos].status = "DONE")
    /\ \* a result that is not DONE is followed by the next poll
       [][(waiter.state = "waiting" /\ waiter.pos < Len(waiter.polls)
              /\ waiter.polls[waiter.pos + 1].status # "DONE")
          => (waiter'.state = "waiting" /\ waiter'.pos = waiter.pos + 1)]_vars
    /\ \* every result the provider hands out is polled, however many they are
       (C22_NeverDone /\ waiter.state = "waiting")
           ~> (waiter.state = "waiting" /\ waiter.pos = Len(waiter.polls))
    /\ \* an operation that reaches DONE: the waiter ends, the caller goes on or fails
       (~C22_NeverDone /\ waiter.state = "waiting")
           ~> (C22_Terminated /\ waiter.caller \in {"continued", "raised"})
    /\ \* an operation that never reaches DONE: neither the waiter nor its caller ends
       [](C22_NeverDone => (waiter.state = "waiting" /\ waiter.caller = "blocked"))

\* the provider has handed out as many results as it may, none of them DONE,
\* and the waiter is still waiting
C22_Witness ==
    /\ C22_NeverDone
    /\ Len(waiter.polls) = MaxPolls
    /\ waiter.pos = Len(waiter.polls)
    /\ waiter.state = "waiting"
    /\ waiter.caller = "blocked"

(***************************************************************************)
(* C23: for every n with 0 <= n <= 256, the subnet ranges 10.0.i.0/24      *)
(* generated for roles i in [0, n) are pairwise non-overlapping, and so    *)
(* are the ranges 10.0.i.0/28 that create_subnet actually requests.        *)
(***************************************************************************)
\* the addresses of one block all lie below those of the other
C23_Apart(a, b) ==
    LET size(n) == 2 ^ (32 - n.len) IN
    \/ a.addr + size(a) <= b.addr
    \/ b.addr + size(b) <= a.addr

C23_PairwiseDisjoint ==
    (rc.state # "idle" /\ rc.i # rc.j) =>
        /\ rc.state \in {"expected", "requested"} =>
              /\ ~rc.expectedOverlap
              /\ rc.expected[1].len = 24 /\ rc.expected[2].len = 24
              /\ C23_Apart(rc.expected[1], rc.expected[2])
        /\ rc.state = "requested" =>
              /\ ~rc.requestedOverlap
              /\ rc.requested[1].len = 28 /\ rc.requested[2].len = 28
              /\ C23_Apart(rc.requested[1], rc.requested[2])

\* both kinds of range have been generated for the last index and its neighbour
C23_Witness ==
    /\ rc.state = "requested"
    /\ rc.i = MaxOctet
    /\ rc.j = MaxOctet - 1
    /\ rc.expected[1] = [addr |-> 167837440 + (MaxOctet - 255) * 256, len |-> 24]

(***************************************************************************)
(* C24: concurrent teardown tasks act on disjoint resources.  In           *)
(* restart_study the deletion tasks that run concurrently target pairwise  *)
(* distinct (project, instance) pairs, so no instance is the target of two *)
(* deletion tasks, including when two participants share one cloud         *)
(* project.                                                                *)
(***************************************************************************)
C24_Target(t) == <<t.project, t.instance>>

C24_DisjointTargets ==
    handler.kind = "studies.restart_study" =>
        \A k, l \in 1..Len(threads) :
            (/\ threads[k].target = "delete_instance"
             /\ threads[l].target = "delete_instance"
             /\ C24_Target(threads[k]) = C24_Target(threads[l])) => k = l

\* two deletion tasks are running at once in the project two participants share
C24_Witness ==
    /\ handler.kind = "studies.restart_study"
    /\ \E k, l \in 1..Len(threads) :
          /\ k # l
          /\ threads[k].project = threads[l].project
          /\ threads[k].state = "running"
          /\ threads[l].state = "running"
    /\ \E a, b \in 1..Len(study) : a # b /\ study[a] = study[b]

(***************************************************************************)
(* C25: remove_conflicting_subnets deletes exactly the subnets of the      *)
(* current project that (1) belong to the study network, (2) have a range  *)
(* that is not equal to any expected range, and (3) have a range that      *)
(* overlaps at least one expected range by CIDR overlap; every other       *)
(* subnet, in particular every subnet of another network, is left          *)
(* untouched.  The expected ranges are those the call itself computes.     *)
(***************************************************************************)
C25_ToDelete(r) ==
    LET expected == ExpectedRanges(gcp[r], ProjectOf(r)) IN
    {s \in startSubnets[r] :
        /\ s.network = NETWORK_NAME
        /\ s.range \notin expected
        /\ \E n2 \in expected : Overlaps(s.range, n2)}

\* remove_conflicting_subnets has returned and create_subnet has made no call yet
C25_JustPruned(r) ==
    /\ pc[r] = "create_subnet"
    /\ log[r][Len(log[r])] = Enter("create_subnet")

C25_DeletesExactlyConflicting ==
    \A r \in Roles :
        C25_JustPruned(r) =>
            subnets[ProjectOf(r)] = startSubnets[r] \ C25_ToDelete(r)

(***************************************************************************)
(* C26: evacuate before delete.  In delete_subnet the subnet delete call   *)
(* is issued only after every instance attached to that subnet has been    *)
(* deleted and each of those delete operations has completed; if an        *)
(* instance deletion fails, the subnet delete call of that attempt is not  *)
(* issued.                                                                 *)
(***************************************************************************)
\* the entries of the log of the call that belong to its current attempt
C26_ThisAttempt ==
    LET marks == {j \in 1..Len(ds.log) : ds.log[j].op = "attempt"}
        start == CHOOSE j \in marks : \A k \in marks : k <= j
    IN start..Len(ds.log)

C26_EvacuateBeforeDelete ==
    (ds.pc # "idle" /\ ds.log # <<>>) =>
        /\ \* the subnet delete call has just been issued: nothing is attached
           ds.log[Len(ds.log)].op = "subnetworks.delete" =>
               ~\E i \in instances[ds.project] : i.subnet = ds.subnet.name
        /\ \* each delete of an instance is followed by the end of its operation
           \A j \in 1..Len(ds.log) :
               (ds.log[j].op = "instances.delete" /\ ds.log[j].ok) =>
                   /\ j < Len(ds.log)
                   /\ ds.log[j + 1].op = "waited"
        /\ \* no subnet delete call in an attempt where an instance delete failed
           \A j, k \in C26_ThisAttempt :
               (ds.log[j].op = "instances.delete" /\ ~ds.log[j].ok) =>
                   ds.log[k].op # "subnetworks.delete"

(***************************************************************************)
(* C27: bounded deletion confirmation.  After issuing the subnet delete,   *)
(* delete_subnet lists the subnets up to 30 times and returns as soon as   *)
(* the subnet is no longer listed; if the subnet is still listed after all *)
(* 30 attempts the process is terminated (exit status 1) instead of        *)
(* returning or failing with a recoverable error.                          *)
(***************************************************************************)
C27_ConfirmBounded ==
    ds.pc # "idle" =>
        /\ ds.listings <= 30
        /\ \* it returns when a listing did not have the subnet
           ds.pc = "returned" => ds.subnet \notin subnets[ds.project]
        /\ \* the process is ended after 30 listings that all had the subnet, only
           ds.pc = "exited" => ds.listings = 30

(***************************************************************************)
(* C29: evacuation is limited to the subnet being deleted.                 *)
(* list_instances(zone, subnetwork=S) returns exactly the names of the     *)
(* instances of the zone attached to subnet S (all instances when S is     *)
(* empty), so delete_subnet never deletes an instance attached to a        *)
(* different subnet, including a subnet whose name has the deleted         *)
(* subnet's name as a prefix (role 1 versus role 10).                      *)
(***************************************************************************)
C29_EvacuationLimited ==
    ds.pc # "idle" =>
        /\ \* what the listing of the attempt returned
           ds.pc = "evacuate" =>
               SeqToSet(ds.listed) \subseteq
                   {i.name : i \in {x \in ds.before :
                                       x.zone = ZONE /\ x.subnet = ds.subnet.name}}
        /\ \* the instances of other subnets are all still there
           \A i \in ds.before :
               i.subnet # ds.subnet.name => i \in instances[ds.project]
        /\ \* with no subnet given, every instance of the zone is returned
           ListInstances(ds.project, <<>>) =
               {i \in instances[ds.project] : i.zone = ZONE}

(***************************************************************************)
(* C28: create_subnet(role) issues a subnet insert (name = subnet prefix + *)
(* role, range 10.0.<role>.0/28, on the study network) and waits for its   *)
(* regional operation iff no subnet with that name is listed in the        *)
(* project; when a subnet with that name is listed it issues no mutating   *)
(* call, whatever that subnet's range or network.                          *)
(***************************************************************************)
\* the step of run r is an attempt of create_subnet
C28_AttemptOf(r) ==
    /\ pc[r] = "create_subnet"
    /\ <<pc[r], log[r], attempt[r]>> # <<pc'[r], log'[r], attempt'[r]>>

\* the cloud calls the step has added to the log of the run
C28_Issued(r) ==
    SelectSeq(SubSeq(log'[r], Len(log[r]) + 1, Len(log'[r])),
              LAMBDA c : c.op \notin {"enter", "return", "raise"})

C28_Requested(r) == [name |-> SubnetName(r), network |-> NETWORK_NAME,
                     range |-> [addr |-> 167772160 + 256 * r, len |-> 28]]

C28_InsertIffAbsent ==
    [][\A r \in Roles :
          C28_AttemptOf(r) =>
              LET p == ProjectOf(r)
                  listed == \E x \in subnets[p] : x.name = SubnetName(r)
                  issued == C28_Issued(r)
              IN
              /\ \* the only call of the method is one insert, of that name
                 /\ Len(issued) <= 1
                 /\ \A k \in 1..Len(issued) :
                       /\ issued[k].op = "subnetworks.insert"
                       /\ issued[k].arg = SubnetName(r)
              /\ \* listed: no call, nothing changes
                 listed => (issued = <<>> /\ subnets' = subnets)
              /\ \* not listed, and the attempt returns: inserted and waited for
                 (~listed /\ pc'[r] = "create_peerings") =>
                     /\ issued = <<Call("subnetworks.insert", SubnetName(r), TRUE)>>
                     /\ subnets'[p] = subnets[p] \cup {C28_Requested(r)}
                     /\ inflight'[r] = inflight[r]
              /\ \* whatever the attempt does to the subnets is that insert
                 subnets'[p] \in {subnets[p], subnets[p] \cup {C28_Requested(r)}}]_vars

\* create_subnet has returned after inserting the subnet of the role
C28_Witness ==
    \E r \in Roles :
        /\ r > 0
        /\ pc[r] = "create_peerings"
        /\ C28_Requested(r) \in subnets[ProjectOf(r)]
        /\ log[r][Len(log[r]) - 2] = Call("subnetworks.insert", SubnetName(r), TRUE)

(***************************************************************************)
(* C30: in one attempt of create_peerings, at most one add-peering call is *)
(* issued per distinct remote project, also when the project list passed   *)
(* in contains the same project more than once (for example the server     *)
(* project listed first and again as the coordinating party's project).    *)
(***************************************************************************)
\* the add-peering calls that a step of run r adds to its log
C30_Added(r) ==
    SelectSeq(SubSeq(log'[r], Len(log[r]) + 1, Len(log'[r])),
              LAMBDA c : c.op = "networks.addPeering")

C30_OnePeeringPerProject ==
    [][\A r \in Roles :
          pc[r] = "create_peerings" =>
              \A i, j \in 1..Len(C30_Added(r)) :
                  C30_Added(r)[i].arg = C30_Added(r)[j].arg => i = j]_vars

(***************************************************************************)
(* C31: the subnet-pruning step of setup_networking completes without an   *)
(* index error for a study with any number of participants: computing the  *)
(* expected range set never reads past the end of the assembled project    *)
(* list, so the step ends with an error only when a cloud call failed.     *)
(***************************************************************************)
\* the indices of gcp_projects that the pruning step reads
C31_IndicesRead == 0..(ExpectedIndexCount - 1)

C31_NoIndexError ==
    [][\A r \in Roles :
          pc[r] = "remove_conflicting_subnets" =>
              /\ \A i \in C31_IndicesRead : i + 1 \in DOMAIN gcp[r]
              /\ pc'[r] = "failed" => failBudget' < failBudget]_vars

(***************************************************************************)
(* C32: project isolation.  Every mutating call of an orchestrator bound   *)
(* to project P targets a resource of P: whenever the networks, firewall   *)
(* rules, subnets, peerings or instances of a project change, the step is  *)
(* one of a setup_networking run of a participant whose project it is.     *)
(* Every other project is left unchanged, in particular the peering object *)
(* on the remote side of a peering that the run adds or removes.           *)
(***************************************************************************)
\* what a project holds
C32_Resources(q) == <<networks[q], firewalls[q], peerings[q], subnets[q], instances[q]>>

\* the run of role r takes the step
C32_StepOf(r) ==
    \/ pc'[r] # pc[r]
    \/ log'[r] # log[r]
    \/ attempt'[r] # attempt[r]
    \/ todo'[r] # todo[r]

C32_ProjectIsolation ==
    [][\A q \in DOMAIN networks :
          C32_Resources(q)' # C32_Resources(q) =>
              \E r \in RolesOf(study) : study[r + 1] = q /\ C32_StepOf(r)]_vars

\* a run added a peering towards a remote project that holds resources of
\* its own, and the remote project has no peering back
C32_Witness ==
    \E r \in RolesOf(study) : \E q \in DOMAIN networks :
        /\ pc[r] = "done"
        /\ q # study[r + 1]
        /\ PeeringName(q) \in peerings[study[r + 1]] \ startPeer[r]
        /\ PeeringName(study[r + 1]) \notin peerings[q]
        /\ subnets[q] # {}
        /\ instances[q] # {}
        /\ subnets[study[r + 1]] # startSubnets[r]

(***************************************************************************)
(* C33: for every role r in 0..255 the internal address create_instance    *)
(* assigns, 10.0.r.10, lies inside the range of the subnet that            *)
(* create_subnet(r) creates (10.0.r.0/28), the instance is attached to the *)
(* subnet named by the same role, and distinct roles get distinct internal *)
(* addresses.                                                              *)
(***************************************************************************)
\* address a is a host address of the range n
C33_HostOf(a, n) ==
    /\ n.addr < a
    /\ a < n.addr + 2 ^ (32 - n.len) - 1

C33_AddressInSubnet ==
    rc.state = "instance" =>
        /\ \A k \in 1..2 :
              /\ C33_HostOf(rc.internal[k], rc.requested[k])
              /\ rc.requested[k].len = 28
              /\ rc.attached[k] = rc.created[k]
        /\ rc.internal[1] = 167772170 + 256 * rc.i
        /\ rc.i # rc.j =>
              /\ rc.internal[1] # rc.internal[2]
              /\ rc.attached[1] # rc.attached[2]

\* the instance body has been generated for the last role and its neighbour
C33_Witness ==
    /\ rc.state = "instance"
    /\ rc.i = MaxOctet
    /\ rc.j = MaxOctet - 1
    /\ rc.requested[1].addr = rc.internal[1] - 10
    /\ rc.attached[1] = SUBNET_NAME \o RoleStr(MaxOctet)

(***************************************************************************)
(* C34: no instance leak under membership changes.  After any sequence of  *)
(* approve_join_study, accept_invitation and remove_participant performed  *)
(* once the instances of a study exist, a later restart_study or           *)
(* delete_study whose cloud calls all succeed has, when it and its threads *)
(* have finished, deleted every instance of the study in every project     *)
(* that held one, the project of a removed participant and instances       *)
(* created under a role index that has since shifted included.             *)
(***************************************************************************)
\* the instances of the study that a project holds
C34_StudyInstances(p) ==
    {i \in instances[p] : i.name \in StudyInstanceNames(STUDY_TITLE)}

\* the request has been served, its threads have ended, no cloud call failed
C34_Finished ==
    /\ handler.pc = "done"
    /\ \A k \in 1..Len(threads) : threads[k].state = "finished"
    /\ failedProjects = {}
    /\ failBudget = MaxFail

C34_NoInstanceLeak ==
    C34_Finished => \A p \in Projects : C34_StudyInstances(p) = {}

(***************************************************************************)
(* C35: start_protocol starts the study setup only in a call where no      *)
(* participant's status in the study record the call holds (the record it  *)
(* read, with the caller's own status as the call has just set it) is the  *)
(* empty string and the caller's own status is "ready to begin sfkit"; a   *)
(* caller with empty status whose check_conditions returns a message gets  *)
(* its status left unchanged and no setup is started.                      *)
(***************************************************************************)
\* the step is one of the call of participant u
C35_StepOf(u) == sp'.calls[u] # sp.calls[u]

\* the call of u starts the setup in this step
C35_Starts(u) == <<u, sp.calls[u].n>> \in sp'.started \ sp.started

C35_StartOnlyWhenAllReady ==
    [][\A u \in DOMAIN sp.calls :
          LET c == sp.calls[u] IN
          /\ sp'.started # sp.started => \E v \in DOMAIN sp.calls : C35_Starts(v)
          /\ C35_Starts(u) =>
                /\ C35_StepOf(u)
                /\ \A v \in DOMAIN c.statuses : c.statuses[v] # ""
                /\ \A v \in DOMAIN c.read : v # u => c.read[v] # ""
                /\ c.statuses[u] = "ready to begin sfkit"
                /\ c.read[u] = "" => c.ok
          /\ (C35_StepOf(u) /\ c.pc = "read" /\ c.read[u] = "" /\ ~c.ok) =>
                /\ doc' = doc
                /\ sp'.started = sp.started
                /\ sp'.calls[u].pc = "flashed"
                /\ sp'.calls[u].statuses[u] = ""]_vars

\* a call that found its caller's status empty, set it and wrote it has started
\* the setup of a study of three participants, after a call of another
\* participant had ended with the message of check_conditions
C35_Witness ==
    \E e \in sp.started : \E v \in DOMAIN sp.calls :
        /\ Len(study) = 3
        /\ sp.calls[e[1]].read[e[1]] = ""
        /\ sp.calls[e[1]].n = e[2]
        /\ v # e[1]
        /\ sp.calls[v].flashes > 0
        /\ doc.status[v] = "ready to begin sfkit"

(***************************************************************************)
(* C36: no lost readiness.  If every non-ready participant of a study      *)
(* calls start_protocol with its conditions satisfied, then under every    *)
(* interleaving of the calls' read of the study record and their write of  *)
(* the status map, once the calls have returned the persisted status map   *)
(* has no empty status and the setup has been started by at least one of   *)
(* the calls.                                                              *)
(***************************************************************************)
\* every participant that was or is non-ready has called with its conditions
\* satisfied, and every call has returned
C36_AllCalled ==
    /\ sp.calls # <<>>
    /\ \A u \in DOMAIN sp.calls :
          LET c == sp.calls[u] IN
          /\ c.pc \in {"idle", "done"}
          /\ c.flashes = 0
          /\ (doc.status[u] = "" \/ c.n > 0) => (c.pc = "done" /\ c.wrote)
    /\ \E u \in DOMAIN sp.calls : sp.calls[u].wrote

C36_NoLostReadiness ==
    C36_AllCalled =>
        /\ \A u \in DOMAIN doc.status : doc.status[u] # ""
        /\ sp.started # {}

====
